---- MODULE Spec2Model ----
(***************************************************************************)
(* json-register: a registrar that maps JSON values to integer ids kept in *)
(* a PostgreSQL table (id SERIAL PRIMARY KEY, json_object JSONB UNIQUE),   *)
(* fronted by an LRU cache keyed by the canonical JSON text of the value.  *)
(*                                                                         *)
(* Python values are records of one shape, so that any two of them can be  *)
(* compared: t is the Python type, n/d the digits of a number (n.d), s a   *)
(* string (or a dict key), items the children.                             *)
(***************************************************************************)
EXTENDS Integers, Sequences, FiniteSets, TLC

\* ------------------------------------------------------------------ bounds
MaxBatch == 3        \* longest list handed to register_batch_objects
LruCacheSize == 2    \* lru_cache_size the registrar is constructed with
MaxThreads == 2      \* concurrent callers sharing one registrar
MaxId == 3           \* ids the sequence gives out before concurrent callers stop inserting
MaxNameLen == 2      \* longest table name the constructor is given
MaxRows == 3         \* most rows a stubbed cursor hands back
MaxCloses == 3       \* close() calls a caller makes on one registrar
MaxNesting == 2      \* containers inside containers in the values canonicalised
RecursionLimit == 3  \* containers the JSON encoder enters before RecursionError

\* ------------------------------------------------------- Python values
PyNone == [t |-> "NoneType", n |-> 0, d |-> 0, s |-> "", items |-> <<>>]
PyBool(b) == [t |-> "bool", n |-> IF b THEN 1 ELSE 0, d |-> 0, s |-> "", items |-> <<>>]
PyInt(n) == [t |-> "int", n |-> n, d |-> 0, s |-> "", items |-> <<>>]
\* the float n.d (one decimal digit), e.g. PyFloat(1, 0) is 1.0
PyFloat(n, d) == [t |-> "float", n |-> n, d |-> d, s |-> "", items |-> <<>>]
PyStr(s) == [t |-> "str", n |-> 0, d |-> 0, s |-> s, items |-> <<>>]
PyList(items) == [t |-> "list", n |-> 0, d |-> 0, s |-> "", items |-> items]
\* a dict keeps its items in insertion order
PyItem(k, v) == [t |-> "item", n |-> 0, d |-> 0, s |-> k, items |-> <<v>>]
PyDict(items) == [t |-> "dict", n |-> 0, d |-> 0, s |-> "", items |-> items]
\* a value json.dumps cannot serialise (TypeError)
PySet == [t |-> "set", n |-> 0, d |-> 0, s |-> "", items |-> <<>>]

\* The values the callers register, by name.
JsonObjects ==
  [ab   |-> PyDict(<<PyItem("a", PyInt(1)), PyItem("b", PyInt(2))>>),
   ba   |-> PyDict(<<PyItem("b", PyInt(2)), PyItem("a", PyInt(1))>>),
   one  |-> PyInt(1),
   onef |-> PyFloat(1, 0),
   bad  |-> PySet]

Values == DOMAIN JsonObjects

\* x = [x], n times
RECURSIVE Wrap(_, _)
Wrap(x, n) == IF n = 0 THEN x ELSE Wrap(PyList(<<x>>), n - 1)

\* ... and with them a value nested deeper than the JSON encoder goes
Objects ==
  [v \in Values \cup {"deep"} |->
     IF v = "deep" THEN Wrap(PySet, RecursionLimit + 1) ELSE JsonObjects[v]]

\* Code point order of the dict keys in use (single lower-case letters).
KeyRank(k) == CASE k = "a" -> 1 [] k = "b" -> 2 [] k = "c" -> 3 [] OTHER -> 4

\* sorted(items, key=lambda kv: kv[0]) by insertion into a sorted prefix
RECURSIVE InsertSorted(_, _)
InsertSorted(it, sorted) ==
  IF sorted = <<>> THEN <<it>>
  ELSE IF KeyRank(it.s) < KeyRank(Head(sorted).s) THEN <<it>> \o sorted
  ELSE <<Head(sorted)>> \o InsertSorted(it, Tail(sorted))

RECURSIVE SortItems(_)
SortItems(items) ==
  IF items = <<>> THEN <<>>
  ELSE InsertSorted(Head(items), SortItems(Tail(items)))

\* a reference to the container n levels up, itself included (1 is the container
\* that holds the reference): d = {}; d["a"] = d is PyDict(<<PyItem("a", PyRef(1))>>)
PyRef(n) == [t |-> "ref", n |-> n, d |-> 0, s |-> "", items |-> <<>>]

\* The encoder of json.dumps(obj, sort_keys=..., separators=(item_sep, key_sep),
\* ensure_ascii=False) on obj inside the containers markers (outermost first):
\* [err, text], err = "" on success, else the exception raised. Entering a
\* container beyond the interpreter's recursion limit raises RecursionError; a
\* container that is being encoded already (check_circular) raises ValueError;
\* an object of no JSON type raises TypeError.
RECURSIVE iterencode(_, _, _, _, _)
RECURSIVE JoinDumps(_, _, _, _, _)
JoinDumps(items, markers, sort_keys, item_sep, key_sep) ==
  IF items = <<>> THEN [err |-> "", text |-> ""]
  ELSE LET it == Head(items)
           h == IF it.t = "item"
                THEN LET v == iterencode(it.items[1], markers, sort_keys, item_sep, key_sep)
                     IN [err |-> v.err, text |-> "\"" \o it.s \o "\"" \o key_sep \o v.text]
                ELSE iterencode(it, markers, sort_keys, item_sep, key_sep)
       IN IF h.err # "" THEN [err |-> h.err, text |-> ""]
          ELSE LET r == JoinDumps(Tail(items), markers, sort_keys, item_sep, key_sep)
               IN IF r.err # "" THEN [err |-> r.err, text |-> ""]
                  ELSE [err |-> "",
                        text |-> IF Tail(items) = <<>> THEN h.text
                                 ELSE h.text \o item_sep \o r.text]

iterencode(obj, markers, sort_keys, item_sep, key_sep) ==
  LET o == IF obj.t = "ref" THEN markers[Len(markers) + 1 - obj.n] ELSE obj
  IN CASE o.t = "NoneType" -> [err |-> "", text |-> "null"]
       [] o.t = "bool" -> [err |-> "", text |-> IF o.n = 1 THEN "true" ELSE "false"]
       [] o.t = "int" -> [err |-> "", text |-> ToString(o.n)]
       [] o.t = "float" -> [err |-> "", text |-> ToString(o.n) \o "." \o ToString(o.d)]
       [] o.t = "str" -> [err |-> "", text |-> "\"" \o o.s \o "\""]
       [] o.t \in {"list", "dict"} ->
            IF Len(markers) >= RecursionLimit THEN [err |-> "RecursionError", text |-> ""]
            ELSE IF \E i \in 1..Len(markers) : markers[i] = o
            THEN [err |-> "ValueError", text |-> ""]
            ELSE LET its == IF o.t = "dict" /\ sort_keys THEN SortItems(o.items)
                            ELSE o.items
                     r == JoinDumps(its, Append(markers, o), sort_keys, item_sep, key_sep)
                 IN [err |-> r.err,
                     text |-> IF r.err # "" THEN ""
                              ELSE IF o.t = "list" THEN "[" \o r.text \o "]"
                              ELSE "{" \o r.text \o "}"]
       [] OTHER -> [err |-> "TypeError", text |-> ""]

\* json.dumps(obj, ...): the encoder on obj, no container entered yet
json_dumps(obj, sort_keys, item_sep, key_sep) ==
  iterencode(obj, <<>>, sort_keys, item_sep, key_sep)

\* a canonicalise_json that leaves the keys as the dict has them
canonicalise_json_unsorted(obj) ==
  LET r == json_dumps(obj, FALSE, ",", ":")
  IN IF r.err \in {"TypeError", "ValueError"}
     THEN [err |-> "CanonicalisationError", text |-> ""]
     ELSE r

\* a list of two integers, the smaller one first, in every list of obj
RECURSIVE sort_arrays(_)
sort_arrays(obj) ==
  IF obj.t \in {"list", "dict", "item"}
  THEN LET kids == [i \in 1..Len(obj.items) |-> sort_arrays(obj.items[i])]
       IN IF /\ obj.t = "list" /\ Len(kids) = 2
             /\ kids[1].t = "int" /\ kids[2].t = "int" /\ kids[1].n > kids[2].n
          THEN [obj EXCEPT !.items = <<kids[2], kids[1]>>]
          ELSE [obj EXCEPT !.items = kids]
  ELSE obj

\* a canonicalise_json that sorts arrays as well
canonicalise_json_sorted_arrays(obj) ==
  LET r == json_dumps(sort_arrays(obj), TRUE, ",", ":")
  IN IF r.err \in {"TypeError", "ValueError"}
     THEN [err |-> "CanonicalisationError", text |-> ""]
     ELSE r

\* canonicalise_json: the canonical key; a TypeError or a ValueError of json.dumps
\* becomes CanonicalisationError, any other exception passes
canonicalise_json(obj) ==
  LET r == json_dumps(obj, TRUE, ",", ":")
  IN IF r.err \in {"TypeError", "ValueError"}
     THEN [err |-> "CanonicalisationError", text |-> ""]
     ELSE r

\* ------------------------------------------------------------ PostgreSQL
\* jsonb compares numbers as numerics, whatever their scale: 1.0 is 1
RECURSIVE jsonb_numeric(_)
jsonb_numeric(obj) ==
  CASE obj.t = "float" /\ obj.d = 0 -> PyInt(obj.n)
    [] obj.t \in {"list", "dict", "item"} ->
         [obj EXCEPT !.items = [i \in 1..Len(obj.items) |-> jsonb_numeric(obj.items[i])]]
    [] OTHER -> obj

\* The jsonb value PostgreSQL makes of json_str = json.dumps(json_obj,
\* ensure_ascii=False), the text the registrar sends, written as text in a normal
\* form: two jsonb values are equal (for = and for the UNIQUE index) exactly when
\* their normal forms are the same text. jsonb keeps no key order and no
\* whitespace of the input, and compares numbers as numerics.
to_jsonb(obj) == json_dumps(jsonb_numeric(obj), TRUE, ", ", ": ").text

\* canonicalise_json and the jsonb value of each value in use
Canonical == [v \in DOMAIN Objects |-> canonicalise_json(Objects[v])]
Jsonb == [v \in DOMAIN Objects |-> to_jsonb(Objects[v])]

\* [canonicalise_json(obj) for obj in json_objects] raises what its first
\* failing element raises
first_error(cans) ==
  cans[CHOOSE i \in 1..Len(cans) :
         cans[i].err # "" /\ \A j \in 1..(i - 1) : cans[j].err = ""].err

\* None, the id column of a row the outer joins did not match
NULL == 0

\* INSERT INTO table (jsonb_column) ... ON CONFLICT (jsonb_column) DO NOTHING
\* RETURNING id, jsonb_column: the proposed values js are taken in order; one that
\* equals a row the unique index holds (visible, or inserted earlier by this very
\* statement) is skipped, the others get the next ids of the sequence.
RECURSIVE insert_do_nothing(_, _, _, _)
insert_do_nothing(js, visible, sq, acc) ==
  IF js = <<>> THEN [inserted |-> acc, seq |-> sq]
  ELSE IF \E r \in visible \cup acc : r.value = Head(js)
       THEN insert_do_nothing(Tail(js), visible, sq, acc)
       ELSE insert_do_nothing(Tail(js), visible, sq + 1,
                              acc \cup {[id |-> sq + 1, value |-> Head(js)]})

\* a set of rows as a sequence of their ids (ascending)
RECURSIVE IdsOf(_)
IdsOf(rs) ==
  IF rs = {} THEN <<>>
  ELSE LET m == CHOOSE r \in rs : \A o \in rs : r.id <= o.id
       IN <<m.id>> \o IdsOf(rs \ {m})

\* the query without ON CONFLICT and without the lookup: every call inserts
register_query_always_insert(snapshot, visible, sq, j) ==
  [rows |-> <<sq + 1>>, inserted |-> {[id |-> sq + 1, value |-> j]}, seq |-> sq + 1]

\* build_register_query: WITH inserted AS (INSERT ... DO NOTHING RETURNING id)
\* SELECT id FROM inserted UNION ALL SELECT id FROM table WHERE jsonb_column = $1
\* AND NOT EXISTS (SELECT 1 FROM inserted) LIMIT 1.
\* snapshot: the rows the statement's SELECTs see; visible: the rows its unique
\* index check sees. rows is what fetchone() has to read.
register_query(snapshot, visible, sq, j) ==
  LET ins == insert_do_nothing(<<j>>, visible, sq, {})
      found == IF ins.inserted = {} THEN {r \in snapshot : r.value = j} ELSE {}
      all == IdsOf(ins.inserted) \o IdsOf(found)
  IN [rows |-> IF all = <<>> THEN <<>> ELSE <<all[1]>>,
      inserted |-> ins.inserted, seq |-> ins.seq]

\* the ids of rs, a NULL if there are none: what a LEFT JOIN contributes
LeftJoinIds(rs) == IF rs = {} THEN <<NULL>> ELSE IdsOf(rs)

\* count copies of x
RECURSIVE Repeat(_, _)
Repeat(x, count) == IF count = 0 THEN <<>> ELSE <<x>> \o Repeat(x, count - 1)

\* build_register_batch_query: input_objects (original_order, json_value) from
\* unnest WITH ORDINALITY; inserted as above; existing = table JOIN input_objects
\* ON equal values, one row per (table row, input position) pair; and the final
\* SELECT COALESCE(i.id, e.id) FROM input_objects io LEFT JOIN inserted i ...
\* LEFT JOIN existing e ... ORDER BY io.original_order.
\* batch_select: the rows of the final SELECT from input position p on, a
\* COALESCE(i.id, e.id) for every pair of a matching inserted row and a matching
\* existing row.
RECURSIVE batch_select(_, _, _, _)
batch_select(js, p, inserted, snapshot) ==
  IF p > Len(js) THEN <<>>
  ELSE LET i_rows == {r \in inserted : r.value = js[p]}
           t_rows == {r \in snapshot : r.value = js[p]}
           \* existing holds a copy of the table row for every input position
           \* whose value equals it
           copies == Cardinality({q \in 1..Len(js) : js[q] = js[p]})
           e_ids == IF t_rows = {} THEN <<NULL>>
                    ELSE Repeat(IdsOf(t_rows)[1], copies)
           i_ids == LeftJoinIds(i_rows)
           joined == [k \in 1..(Len(i_ids) * Len(e_ids)) |->
                        LET i == i_ids[((k - 1) \div Len(e_ids)) + 1]
                            e == e_ids[((k - 1) % Len(e_ids)) + 1]
                        IN IF i # NULL THEN i ELSE e]
       IN joined \o batch_select(js, p + 1, inserted, snapshot)

\* the batch statement on the list js of jsonb values
register_batch_query(snapshot, visible, sq, js) ==
  LET ins == insert_do_nothing(js, visible, sq, {})
  IN [rows |-> batch_select(js, 1, ins.inserted, snapshot),
      inserted |-> ins.inserted, seq |-> ins.seq]

\* ------------------------------------------------------------- LRU cache
\* lru.LRU(size): a sequence of [key, value], most recently used first.
\* key in cache: no change of order
LRU_contains(c, k) == \E i \in 1..Len(c) : c[i].key = k

\* a cache[key] that leaves the entry where it is
LRU_peek(c, k) ==
  LET i == CHOOSE i \in 1..Len(c) : c[i].key = k
  IN [value |-> c[i].value, cache |-> c]

\* cache[key]: the value, and the entry moves to the front
LRU_getitem(c, k) ==
  LET i == CHOOSE i \in 1..Len(c) : c[i].key = k
  IN [value |-> c[i].value,
      cache |-> <<c[i]>> \o SelectSeq(c, LAMBDA e : e.key # k)]

\* a cache[key] = value that never drops an entry
LRU_setitem_unbounded(c, k, v, size) ==
  <<[key |-> k, value |-> v]>> \o SelectSeq(c, LAMBDA e : e.key # k)

\* cache[key] = value: the entry goes to the front (replacing one of the same
\* key); beyond size entries the least recently used one is dropped
LRU_setitem(c, k, v, size) ==
  LET added == <<[key |-> k, value |-> v]>> \o SelectSeq(c, LAMBDA e : e.key # k)
  IN IF Len(added) > size THEN SubSeq(added, 1, size) ELSE added

\* ---------------------------------------------------------- configuration
\* Table and column names are sequences of characters: a letter, a digit, the
\* underscore, and one character that is none of these.
Chars == {"a", "1", "_", ";"}

RECURSIVE NamesOfLen(_)
NamesOfLen(n) ==
  IF n = 0 THEN {<<>>}
  ELSE {Append(s, ch) : s \in NamesOfLen(n - 1), ch \in Chars}

\* the table names tried: every name of up to MaxNameLen characters
Names == UNION {NamesOfLen(n) : n \in 0..MaxNameLen}
\* the column names tried: the empty name and the names of one character
ColumnNames == NamesOfLen(0) \cup NamesOfLen(1)

\* the arguments of the constructor that validate_config reads
Configs ==
  [database_name : {"", "mydb"},
   database_host : {"", "localhost"},
   database_port : {0, 1, 65535, 65536},
   database_user : {"", "user"},
   table_name : Names,
   id_column : ColumnNames,
   jsonb_column : ColumnNames,
   lru_cache_size : {0, 1},
   pool_size : {0, 1}]

\* a configuration that passes, with the cache size of the registrar in use
DefaultConfig ==
  [database_name |-> "mydb", database_host |-> "localhost", database_port |-> 1,
   database_user |-> "user", table_name |-> <<"a">>, id_column |-> <<"1">>,
   jsonb_column |-> <<"a">>, lru_cache_size |-> LruCacheSize, pool_size |-> 1]

\* name.replace("_", "")
replace_underscore(name) == SelectSeq(name, LAMBDA ch : ch # "_")

\* str.isalnum(): at least one character, and every character a letter or a digit
isalnum(s) == s # <<>> /\ \A i \in 1..Len(s) : s[i] \in {"a", "1"}

\* not name or not name.replace("_", "").isalnum()
rejected_name(name) == name = <<>> \/ ~isalnum(replace_underscore(name))

\* validate_config: the message of the ConfigurationError it raises, "" if none
validate_config(cfg) ==
  IF cfg.database_name = "" THEN "database_name cannot be empty"
  ELSE IF cfg.database_host = "" THEN "database_host cannot be empty"
  ELSE IF ~(1 <= cfg.database_port /\ cfg.database_port <= 65535)
  THEN "database_port must be between 1 and 65535"
  ELSE IF cfg.database_user = "" THEN "database_user cannot be empty"
  ELSE IF rejected_name(cfg.table_name)
  THEN "table_name must be alphanumeric (with underscores)"
  ELSE IF rejected_name(cfg.id_column)
  THEN "id_column must be alphanumeric (with underscores)"
  ELSE IF rejected_name(cfg.jsonb_column)
  THEN "jsonb_column must be alphanumeric (with underscores)"
  ELSE IF cfg.lru_cache_size < 1 THEN "lru_cache_size must be at least 1"
  ELSE IF cfg.pool_size < 1 THEN "pool_size must be at least 1"
  ELSE ""

\* a _validate_config that looks at pool_size before lru_cache_size
async_validate_config_pool_first(cfg) ==
  IF cfg.database_name = "" THEN "database_name cannot be empty"
  ELSE IF cfg.database_host = "" THEN "database_host cannot be empty"
  ELSE IF ~(1 <= cfg.database_port /\ cfg.database_port <= 65535)
  THEN "database_port must be between 1 and 65535"
  ELSE IF cfg.database_user = "" THEN "database_user cannot be empty"
  ELSE IF cfg.table_name = <<>> \/ ~isalnum(replace_underscore(cfg.table_name))
  THEN "table_name must be alphanumeric (with underscores)"
  ELSE IF cfg.id_column = <<>> \/ ~isalnum(replace_underscore(cfg.id_column))
  THEN "id_column must be alphanumeric (with underscores)"
  ELSE IF cfg.jsonb_column = <<>> \/ ~isalnum(replace_underscore(cfg.jsonb_column))
  THEN "jsonb_column must be alphanumeric (with underscores)"
  ELSE IF cfg.pool_size < 1 THEN "pool_size must be at least 1"
  ELSE IF cfg.lru_cache_size < 1 THEN "lru_cache_size must be at least 1"
  ELSE ""

\* JsonRegisterCacheAsync._validate_config: the same checks, written out again
async_validate_config(cfg) ==
  IF cfg.database_name = "" THEN "database_name cannot be empty"
  ELSE IF cfg.database_host = "" THEN "database_host cannot be empty"
  ELSE IF ~(1 <= cfg.database_port /\ cfg.database_port <= 65535)
  THEN "database_port must be between 1 and 65535"
  ELSE IF cfg.database_user = "" THEN "database_user cannot be empty"
  ELSE IF cfg.table_name = <<>> \/ ~isalnum(replace_underscore(cfg.table_name))
  THEN "table_name must be alphanumeric (with underscores)"
  ELSE IF cfg.id_column = <<>> \/ ~isalnum(replace_underscore(cfg.id_column))
  THEN "id_column must be alphanumeric (with underscores)"
  ELSE IF cfg.jsonb_column = <<>> \/ ~isalnum(replace_underscore(cfg.jsonb_column))
  THEN "jsonb_column must be alphanumeric (with underscores)"
  ELSE IF cfg.lru_cache_size < 1 THEN "lru_cache_size must be at least 1"
  ELSE IF cfg.pool_size < 1 THEN "pool_size must be at least 1"
  ELSE ""

\* what the pool factory can do: hand out a pool, or fail in a way the
\* constructor provides for. ConnectionPool(...) raises a psycopg.Error;
\* asyncpg.create_pool raises a PostgresError or an OSError, or yields None.
PoolResults(mode) ==
  IF mode = "sync" THEN {"pool", "psycopg.Error"}
  ELSE {"pool", "None", "PostgresError", "OSError"}

\* what a construction leaves: the exception raised ("ok" if none), whether the
\* caller gets a registrar, whether the object has its _pool attribute, and how
\* often the pool factory was called
Constructed(outcome, has_pool, pool_calls) ==
  [outcome |-> outcome, instance |-> outcome = "ok", has_pool |-> has_pool,
   pool_calls |-> pool_calls]

\* a constructor that makes its pool before it looks at the configuration
JsonRegisterCache_init_pool_first(cfg, pool_result) ==
  IF pool_result # "pool" THEN Constructed("ConnectionError", FALSE, 1)
  ELSE IF validate_config(cfg) # "" THEN Constructed("ConfigurationError", TRUE, 1)
  ELSE Constructed("ok", TRUE, 1)

\* JsonRegisterCache.__init__: validate_config, the LRU, ConnectionPool(...)
\* inside try / except psycopg.Error, the queries
JsonRegisterCache_init(cfg, pool_result) ==
  IF validate_config(cfg) # "" THEN Constructed("ConfigurationError", FALSE, 0)
  ELSE IF pool_result = "psycopg.Error" THEN Constructed("ConnectionError", FALSE, 1)
  ELSE Constructed("ok", TRUE, 1)

\* a create that takes whatever create_pool yields for a pool
JsonRegisterCacheAsync_create_unchecked(cfg, pool_result) ==
  IF async_validate_config(cfg) # "" THEN Constructed("ConfigurationError", FALSE, 0)
  ELSE IF pool_result \in {"PostgresError", "OSError"}
  THEN Constructed("ConnectionError", FALSE, 1)
  ELSE Constructed("ok", pool_result = "pool", 1)

\* JsonRegisterCacheAsync.create: _validate_config, then create_pool inside
\* try / except (asyncpg.PostgresError, OSError), with ConnError raised when the
\* pool is None, then cls(pool, ...)
JsonRegisterCacheAsync_create(cfg, pool_result) ==
  IF async_validate_config(cfg) # "" THEN Constructed("ConfigurationError", FALSE, 0)
  ELSE IF pool_result = "None" THEN Constructed("ConnectionError", FALSE, 1)
  ELSE IF pool_result \in {"PostgresError", "OSError"}
  THEN Constructed("ConnectionError", FALSE, 1)
  ELSE Constructed("ok", TRUE, 1)

\* ------------------------------------------------------------------ state
VARIABLES
  table,     \* the committed rows of the table: a set of [id, value]
  seq,       \* the last id the table's sequence gave out
  cache,     \* self._cache of the registrar
  last,      \* what the caller holds: the list it is building (op = "list"), or
             \* its last call [op, input, outcome, ids, path]; fresh: the registrar
             \* has been constructed anew since
  returned,  \* for each value, the ids successful registrations returned for it
  pc,        \* where each concurrent caller is in its register_object call
  frame,     \* each concurrent caller's locals: [input, path, snapshot, inserted,
             \* rows, outcome, ids]
  reg,       \* the registrar object: how it was constructed and with what result
  pool,      \* its connection pool: [closed, closes, borrowed]
  scope,     \* where the caller is relative to a with block on the registrar
  call,      \* the call in progress on a stubbed store: [op, input, phase, resp]
  obj,       \* the Python value a caller of canonicalise_json holds
  other,     \* a second value, made of obj by reordering
  swapped,   \* what has been reordered in other: "none", "keys", "elements"
  dumped,    \* what canonicalise_json returned: [obj, other]
  recency    \* the cache keys by last use (hit read or put), least recent first

\* the life cycle of the registrar object and of its pool
life == <<reg, pool, scope, call>>

\* a caller of canonicalise_json alone
canon == <<obj, other, swapped, dumped>>

vars ==
  <<table, seq, cache, last, returned, pc, frame, reg, pool, scope, call, obj, other,
    swapped, dumped, recency>>

\* what a call leaves behind: outcome "ok" or the exception raised
Returns(ids, path, c, tbl, sq) ==
  [outcome |-> "ok", ids |-> ids, path |-> path, cache |-> c, table |-> tbl, seq |-> sq]

\* an error path that drops the cache
RaisesClearingCache(exc, path, c, tbl, sq) ==
  [outcome |-> exc, ids |-> <<>>, path |-> path, cache |-> <<>>, table |-> tbl, seq |-> sq]

\* raise exc: no id; the cache is as the call has left it so far and the
\* transaction, if any, is rolled back (sequence values a rolled-back statement
\* has drawn are not kept: ids are only ever compared for equality)
Raises(exc, path, c, tbl, sq) ==
  [outcome |-> exc, ids |-> <<>>, path |-> path, cache |-> c, table |-> tbl, seq |-> sq]

\* What the with self._pool.connection() block of a call meets: the rows the
\* cursor fetches (with the rows the statement inserted and the sequence after
\* it), or the exception raised inside the block.
Answer(q) == [raised |-> "", rows |-> q.rows, inserted |-> q.inserted, seq |-> q.seq]
Failure(exc) == [raised |-> exc, rows |-> <<>>, inserted |-> {}, seq |-> 0]

\* a register_object that goes to the store whatever the cache holds
register_object_store_always(c, tbl, sq, v, resp) ==
  LET canonical == Canonical[v]
  IN IF canonical.err # "" THEN Raises(canonical.err, "none", c, tbl, sq)
     ELSE IF resp.raised = "psycopg.Error"
     THEN Raises("ConnectionError", "store", c, tbl, sq)
     ELSE IF resp.raised # "" THEN Raises(resp.raised, "store", c, tbl, sq)
     ELSE IF resp.rows = <<>>
     THEN Raises("InvalidResponseError", "store", c, tbl, sq)
     ELSE Returns(<<resp.rows[1]>>, "store",
                  LRU_setitem(c, canonical.text, resp.rows[1], LruCacheSize),
                  tbl \cup resp.inserted, resp.seq)

\* a register_object that caches whatever it fetched before it looks at it
register_object_cache_first(c, tbl, sq, v, resp) ==
  LET canonical == Canonical[v]
  IN IF canonical.err # "" THEN Raises(canonical.err, "none", c, tbl, sq)
     ELSE IF LRU_contains(c, canonical.text)
     THEN LET hit == LRU_getitem(c, canonical.text)
          IN Returns(<<hit.value>>, "cache", hit.cache, tbl, sq)
     ELSE IF resp.raised = "psycopg.Error"
     THEN Raises("ConnectionError", "store", c, tbl, sq)
     ELSE IF resp.raised # "" THEN Raises(resp.raised, "store", c, tbl, sq)
     ELSE IF resp.rows = <<>>
     THEN Raises("InvalidResponseError", "store",
                 LRU_setitem(c, canonical.text, NULL, LruCacheSize), tbl, sq)
     ELSE Returns(<<resp.rows[1]>>, "store",
                  LRU_setitem(c, canonical.text, resp.rows[1], LruCacheSize),
                  tbl \cup resp.inserted, resp.seq)

\* JsonRegisterCache.register_object on cache c, where the with block meets resp:
\* except psycopg.Error turns into ConnectionError, any other exception raised in
\* the block leaves the call as it is
register_object_with(c, tbl, sq, v, resp) ==
  LET canonical == Canonical[v]
  IN IF canonical.err # "" THEN Raises(canonical.err, "none", c, tbl, sq)
     ELSE IF LRU_contains(c, canonical.text)
     THEN LET hit == LRU_getitem(c, canonical.text)
          IN Returns(<<hit.value>>, "cache", hit.cache, tbl, sq)
     ELSE IF resp.raised = "psycopg.Error"
     THEN Raises("ConnectionError", "store", c, tbl, sq)
     ELSE IF resp.raised # "" THEN Raises(resp.raised, "store", c, tbl, sq)
     ELSE IF resp.rows = <<>>
     THEN Raises("InvalidResponseError", "store", c, tbl, sq)
     ELSE Returns(<<resp.rows[1]>>, "store",
                  LRU_setitem(c, canonical.text, resp.rows[1], LruCacheSize),
                  tbl \cup resp.inserted, resp.seq)

\* JsonRegisterCache.register_object on cache c and a store holding tbl, sq;
\* db_ok = FALSE: psycopg raises an Error inside the try block
register_object(c, tbl, sq, v, db_ok) ==
  register_object_with(c, tbl, sq, v,
                       IF db_ok THEN Answer(register_query(tbl, tbl, sq, Jsonb[v]))
                       ELSE Failure("psycopg.Error"))

\* JsonRegisterCacheAsync.register_object: the same steps, with
\* except asyncpg.PostgresError
async_register_object_with(c, tbl, sq, v, resp) ==
  LET canonical == Canonical[v]
  IN IF canonical.err # "" THEN Raises(canonical.err, "none", c, tbl, sq)
     ELSE IF LRU_contains(c, canonical.text)
     THEN LET hit == LRU_getitem(c, canonical.text)
          IN Returns(<<hit.value>>, "cache", hit.cache, tbl, sq)
     ELSE IF resp.raised = "PostgresError"
     THEN Raises("ConnectionError", "store", c, tbl, sq)
     ELSE IF resp.raised # "" THEN Raises(resp.raised, "store", c, tbl, sq)
     ELSE IF resp.rows = <<>>
     THEN Raises("InvalidResponseError", "store", c, tbl, sq)
     ELSE Returns(<<resp.rows[1]>>, "store",
                  LRU_setitem(c, canonical.text, resp.rows[1], LruCacheSize),
                  tbl \cup resp.inserted, resp.seq)

\* [self._cache[canonical] for canonical in canonicals]: each read moves its
\* entry to the front
RECURSIVE read_all(_, _, _)
read_all(c, keys, acc) ==
  IF keys = <<>> THEN [ids |-> acc, cache |-> c]
  ELSE LET hit == LRU_getitem(c, Head(keys))
       IN read_all(hit.cache, Tail(keys), Append(acc, hit.value))

\* the loop caching every key with the first id
RECURSIVE update_cache_first_id(_, _, _)
update_cache_first_id(c, keys, ids) ==
  IF keys = <<>> \/ ids = <<>> THEN c
  ELSE update_cache_first_id(LRU_setitem(c, Head(keys), Head(ids), LruCacheSize),
                             Tail(keys), ids)

\* the loop pairing the keys with the ids taken from the end
RECURSIVE update_cache_reversed(_, _, _)
update_cache_reversed(c, keys, ids) ==
  IF keys = <<>> \/ ids = <<>> THEN c
  ELSE update_cache_reversed(LRU_setitem(c, Head(keys), ids[Len(ids)], LruCacheSize),
                             Tail(keys), SubSeq(ids, 1, Len(ids) - 1))

\* the loop skipping the keys the cache already holds
RECURSIVE update_cache_new_keys(_, _, _)
update_cache_new_keys(c, keys, ids) ==
  IF keys = <<>> \/ ids = <<>> THEN c
  ELSE update_cache_new_keys(
         IF LRU_contains(c, Head(keys)) THEN c
         ELSE LRU_setitem(c, Head(keys), Head(ids), LruCacheSize),
         Tail(keys), Tail(ids))

\* for canonical, obj_id in zip(canonicals, ids): self._cache[canonical] = obj_id
RECURSIVE update_cache(_, _, _)
update_cache(c, keys, ids) ==
  IF keys = <<>> \/ ids = <<>> THEN c
  ELSE update_cache(LRU_setitem(c, Head(keys), Head(ids), LruCacheSize),
                    Tail(keys), Tail(ids))

\* a register_batch_objects whose membership test reads the entries it finds
register_batch_objects_reading_test(c, tbl, sq, xs, resp) ==
  LET cans == [i \in 1..Len(xs) |-> Canonical[xs[i]]]
      canonicals == [i \in 1..Len(xs) |-> cans[i].text]
      tested == read_all(c, SelectSeq(canonicals, LAMBDA k : LRU_contains(c, k)), <<>>).cache
  IN IF xs = <<>> THEN Returns(<<>>, "none", c, tbl, sq)
     ELSE IF \E i \in 1..Len(xs) : cans[i].err # ""
     THEN Raises(first_error(cans), "none", c, tbl, sq)
     ELSE IF \A i \in 1..Len(xs) : LRU_contains(c, canonicals[i])
     THEN LET hits == read_all(c, canonicals, <<>>)
          IN Returns(hits.ids, "cache", hits.cache, tbl, sq)
     ELSE IF resp.raised = "psycopg.Error"
     THEN Raises("ConnectionError", "store", tested, tbl, sq)
     ELSE IF resp.raised # "" THEN Raises(resp.raised, "store", tested, tbl, sq)
     ELSE IF Len(resp.rows) # Len(xs)
     THEN Raises("InvalidResponseError", "store", tested, tbl, sq)
     ELSE Returns(resp.rows, "store", update_cache(tested, canonicals, resp.rows),
                  tbl \cup resp.inserted, resp.seq)

\* a register_batch_objects without its fast path and without its cache path
register_batch_objects_store_always(c, tbl, sq, xs, resp) ==
  LET cans == [i \in 1..Len(xs) |-> Canonical[xs[i]]]
      canonicals == [i \in 1..Len(xs) |-> cans[i].text]
  IN IF \E i \in 1..Len(xs) : cans[i].err # ""
     THEN Raises(first_error(cans), "none", c, tbl, sq)
     ELSE IF resp.raised = "psycopg.Error"
     THEN Raises("ConnectionError", "store", c, tbl, sq)
     ELSE IF resp.raised # "" THEN Raises(resp.raised, "store", c, tbl, sq)
     ELSE IF Len(resp.rows) # Len(xs)
     THEN Raises("InvalidResponseError", "store", c, tbl, sq)
     ELSE Returns(resp.rows, "store", update_cache(c, canonicals, resp.rows),
                  tbl \cup resp.inserted, resp.seq)

\* a register_batch_objects that caches the ids it got before it counts them
register_batch_objects_cache_first(c, tbl, sq, xs, resp) ==
  LET cans == [i \in 1..Len(xs) |-> Canonical[xs[i]]]
      canonicals == [i \in 1..Len(xs) |-> cans[i].text]
  IN IF xs = <<>> THEN Returns(<<>>, "none", c, tbl, sq)
     ELSE IF \E i \in 1..Len(xs) : cans[i].err # ""
     THEN Raises(first_error(cans), "none", c, tbl, sq)
     ELSE IF \A i \in 1..Len(xs) : LRU_contains(c, canonicals[i])
     THEN LET hits == read_all(c, canonicals, <<>>)
          IN Returns(hits.ids, "cache", hits.cache, tbl, sq)
     ELSE IF resp.raised = "psycopg.Error"
     THEN Raises("ConnectionError", "store", c, tbl, sq)
     ELSE IF resp.raised # "" THEN Raises(resp.raised, "store", c, tbl, sq)
     ELSE IF Len(resp.rows) # Len(xs)
     THEN Raises("InvalidResponseError", "store",
                 update_cache(c, canonicals, resp.rows), tbl, sq)
     ELSE Returns(resp.rows, "store", update_cache(c, canonicals, resp.rows),
                  tbl \cup resp.inserted, resp.seq)

\* a register_batch_objects that asks the store but answers from the cache for
\* the keys it holds
register_batch_objects_partial_cache(c, tbl, sq, xs, resp) ==
  LET cans == [i \in 1..Len(xs) |-> Canonical[xs[i]]]
      canonicals == [i \in 1..Len(xs) |-> cans[i].text]
  IN IF xs = <<>> THEN Returns(<<>>, "none", c, tbl, sq)
     ELSE IF \E i \in 1..Len(xs) : cans[i].err # ""
     THEN Raises(first_error(cans), "none", c, tbl, sq)
     ELSE IF \A i \in 1..Len(xs) : LRU_contains(c, canonicals[i])
     THEN LET hits == read_all(c, canonicals, <<>>)
          IN Returns(hits.ids, "cache", hits.cache, tbl, sq)
     ELSE IF resp.raised = "psycopg.Error"
     THEN Raises("ConnectionError", "store", c, tbl, sq)
     ELSE IF resp.raised # "" THEN Raises(resp.raised, "store", c, tbl, sq)
     ELSE IF Len(resp.rows) # Len(xs)
     THEN Raises("InvalidResponseError", "store", c, tbl, sq)
     ELSE LET ids == [i \in 1..Len(xs) |->
                        IF LRU_contains(c, canonicals[i])
                        THEN LRU_getitem(c, canonicals[i]).value
                        ELSE resp.rows[i]]
          IN Returns(ids, "store", update_cache(c, canonicals, ids),
                     tbl \cup resp.inserted, resp.seq)

\* JsonRegisterCache.register_batch_objects on cache c, where the with block
\* meets resp
register_batch_objects_with(c, tbl, sq, xs, resp) ==
  LET cans == [i \in 1..Len(xs) |-> Canonical[xs[i]]]
      canonicals == [i \in 1..Len(xs) |-> cans[i].text]
  IN IF xs = <<>> THEN Returns(<<>>, "none", c, tbl, sq)
     ELSE IF \E i \in 1..Len(xs) : cans[i].err # ""
     THEN Raises(first_error(cans), "none", c, tbl, sq)
     ELSE IF \A i \in 1..Len(xs) : LRU_contains(c, canonicals[i])
     THEN LET hits == read_all(c, canonicals, <<>>)
          IN Returns(hits.ids, "cache", hits.cache, tbl, sq)
     ELSE IF resp.raised = "psycopg.Error"
     THEN Raises("ConnectionError", "store", c, tbl, sq)
     ELSE IF resp.raised # "" THEN Raises(resp.raised, "store", c, tbl, sq)
     ELSE IF Len(resp.rows) # Len(xs)
     THEN Raises("InvalidResponseError", "store", c, tbl, sq)
     ELSE Returns(resp.rows, "store", update_cache(c, canonicals, resp.rows),
                  tbl \cup resp.inserted, resp.seq)

\* JsonRegisterCache.register_batch_objects on the store holding tbl, sq
register_batch_objects(c, tbl, sq, xs, db_ok) ==
  register_batch_objects_with(
    c, tbl, sq, xs,
    IF db_ok
    THEN Answer(register_batch_query(tbl, tbl, sq, [i \in 1..Len(xs) |-> Jsonb[xs[i]]]))
    ELSE Failure("psycopg.Error"))

\* a coroutine that fills the cache from the rows before it has counted them
async_register_batch_objects_eager(c, tbl, sq, xs, resp) ==
  LET cans == [i \in 1..Len(xs) |-> Canonical[xs[i]]]
      canonicals == [i \in 1..Len(xs) |-> cans[i].text]
  IN IF xs = <<>> THEN Returns(<<>>, "none", c, tbl, sq)
     ELSE IF \E i \in 1..Len(xs) : cans[i].err # ""
     THEN Raises(first_error(cans), "none", c, tbl, sq)
     ELSE IF \A i \in 1..Len(xs) : LRU_contains(c, canonicals[i])
     THEN LET hits == read_all(c, canonicals, <<>>)
          IN Returns(hits.ids, "cache", hits.cache, tbl, sq)
     ELSE IF resp.raised = "PostgresError"
     THEN Raises("ConnectionError", "store", c, tbl, sq)
     ELSE IF resp.raised # "" THEN Raises(resp.raised, "store", c, tbl, sq)
     ELSE IF Len(resp.rows) # Len(xs)
     THEN Raises("InvalidResponseError", "store",
                 update_cache(c, canonicals, resp.rows), tbl, sq)
     ELSE Returns(resp.rows, "store", update_cache(c, canonicals, resp.rows),
                  tbl \cup resp.inserted, resp.seq)

\* JsonRegisterCacheAsync.register_batch_objects: the same steps, with
\* except asyncpg.PostgresError
async_register_batch_objects_with(c, tbl, sq, xs, resp) ==
  LET cans == [i \in 1..Len(xs) |-> Canonical[xs[i]]]
      canonicals == [i \in 1..Len(xs) |-> cans[i].text]
  IN IF xs = <<>> THEN Returns(<<>>, "none", c, tbl, sq)
     ELSE IF \E i \in 1..Len(xs) : cans[i].err # ""
     THEN Raises(first_error(cans), "none", c, tbl, sq)
     ELSE IF \A i \in 1..Len(xs) : LRU_contains(c, canonicals[i])
     THEN LET hits == read_all(c, canonicals, <<>>)
          IN Returns(hits.ids, "cache", hits.cache, tbl, sq)
     ELSE IF resp.raised = "PostgresError"
     THEN Raises("ConnectionError", "store", c, tbl, sq)
     ELSE IF resp.raised # "" THEN Raises(resp.raised, "store", c, tbl, sq)
     ELSE IF Len(resp.rows) # Len(xs)
     THEN Raises("InvalidResponseError", "store", c, tbl, sq)
     ELSE Returns(resp.rows, "store", update_cache(c, canonicals, resp.rows),
                  tbl \cup resp.inserted, resp.seq)

\* the ids a successful call returned, added to what each value has got so far
Record(ret, xs, r) ==
  [v \in Values |->
     ret[v] \cup {r.ids[i] : i \in {k \in 1..Len(xs) : r.outcome = "ok" /\ xs[k] = v}}]

\* the call op(xs) ends with r: the registrar's cache and the store are as r left
\* them, and the caller holds the outcome
Finish(op, xs, r) ==
  /\ cache' = r.cache
  /\ table' = r.table
  /\ seq' = r.seq
  /\ last' = [op |-> op, input |-> xs, outcome |-> r.outcome, ids |-> r.ids,
              path |-> r.path, fresh |-> FALSE]
  /\ returned' = Record(returned, xs, r)
  /\ UNCHANGED <<pc, frame, life, canon, recency>>

\* what the caller holds when it has made no call on its list xs yet
NoCall(op, xs) ==
  [op |-> op, input |-> xs, outcome |-> "ok", ids |-> <<>>, path |-> "none",
   fresh |-> FALSE]

\* the threads that call the registrar concurrently
Threads == 1..MaxThreads

\* the locals of a thread outside a call
Idle ==
  [input |-> "", path |-> "none", snapshot |-> {}, inserted |-> {}, rows |-> <<>>,
   outcome |-> "", ids |-> <<>>]

\* the registrar as constructed: the constructor used ("sync" for
\* JsonRegisterCache(...), "async" for JsonRegisterCacheAsync.create(...)), its
\* arguments, what the pool factory did, what came of it, whether the
\* destructor has run, and what a close() of it has raised
Registrar(mode, cfg, pool_result, made) ==
  [mode |-> mode, cfg |-> cfg, pool_result |-> pool_result, outcome |-> made.outcome,
   instance |-> made.instance, has_pool |-> made.has_pool,
   pool_calls |-> made.pool_calls, deleted |-> FALSE, close_error |-> ""]

\* no constructor has been called yet
NoRegistrar ==
  [mode |-> "none", cfg |-> DefaultConfig, pool_result |-> "pool", outcome |-> "none",
   instance |-> FALSE, has_pool |-> FALSE, pool_calls |-> 0, deleted |-> FALSE,
   close_error |-> ""]

\* the pool a successful construction holds: open, close() never called on it,
\* no connection out. A construction that makes no pool leaves the same record
\* and reg.has_pool = FALSE.
NewPool == [closed |-> FALSE, closes |-> 0, borrowed |-> 0]

\* no call has been made, or the last one is over
NoResponse == Failure("none")
NoStoreCall ==
  [op |-> "none", input |-> <<>>, phase |-> "done", resp |-> NoResponse, sent |-> <<>>]

\* canonicalise_json has not been called
NotCalled == [err |-> "none", text |-> ""]
NotDumped == [obj |-> NotCalled, other |-> NotCalled]

\* nobody calls canonicalise_json on its own
CanonIdle ==
  /\ obj = PyNone
  /\ other = PyNone
  /\ swapped = "none"
  /\ dumped = NotDumped

\* an empty table and a caller that has made no call
StoreInit ==
  /\ table = {}
  /\ seq = 0
  /\ cache = <<>>
  /\ last = NoCall("none", <<>>)
  /\ returned = [v \in Values |-> {}]
  /\ pc = [t \in Threads |-> "idle"]
  /\ frame = [t \in Threads |-> Idle]

\* JsonRegisterCache(...) on an empty table: empty cache, no call made
Init ==
  /\ StoreInit
  /\ reg = Registrar("sync", DefaultConfig, "pool",
                     JsonRegisterCache_init(DefaultConfig, "pool"))
  /\ pool = NewPool
  /\ scope = "out"
  /\ call = NoStoreCall
  /\ CanonIdle
  /\ recency = <<>>

\* a caller registers one value; the store may fail when the call reaches it
RegisterObject ==
  \E v \in Values, db_ok \in BOOLEAN :
    LET r == register_object(cache, table, seq, v, db_ok)
    IN /\ db_ok \/ r.path = "store"
       /\ Finish("register_object", <<v>>, r)

\* a caller starts the list it will hand to register_batch_objects: objects = []
NewList ==
  /\ last' = NoCall("list", <<>>)
  /\ UNCHANGED <<table, seq, cache, returned, pc, frame, life, canon, recency>>

\* objects.append(v)
AppendObject ==
  \E v \in Values :
    /\ last.op = "list"
    /\ Len(last.input) < MaxBatch
    /\ last' = NoCall("list", Append(last.input, v))
    /\ UNCHANGED <<table, seq, cache, returned, pc, frame, life, canon, recency>>

\* the caller registers the list it holds: the one it has built, or the one it
\* has registered before
RegisterBatchObjects ==
  \E db_ok \in BOOLEAN :
    LET r == register_batch_objects(cache, table, seq, last.input, db_ok)
    IN /\ last.op \in {"list", "register_batch_objects"}
       /\ db_ok \/ r.path = "store"
       /\ Finish("register_batch_objects", last.input, r)

\* JsonRegisterCache(...) again, with a valid configuration and the same database:
\* the new registrar starts with an empty cache
NewRegistrar ==
  /\ cache' = <<>>
  /\ last' = [last EXCEPT !.fresh = TRUE]
  /\ UNCHANGED <<table, seq, returned, pc, frame, life, canon, recency>>

Next ==
  \/ RegisterObject
  \/ NewList
  \/ AppendObject
  \/ RegisterBatchObjects
  \/ NewRegistrar

Spec == Init /\ [][Next]_vars

\* ---------------------------------------------- concurrent register_object
\* Callers on threads that share the registrar, each with a pooled connection of
\* its own. A step is what runs without another thread or another transaction
\* coming between: one operation on the cache, one phase of the SQL statement.
Goto(t, label, f) ==
  /\ pc' = [pc EXCEPT ![t] = label]
  /\ frame' = [frame EXCEPT ![t] = f]

\* register_object(v) up to the membership test: canonical in self._cache
Call(t) ==
  \E v \in Values :
    /\ pc[t] \in {"idle", "done"}
    /\ IF Canonical[v].err # ""
       THEN Goto(t, "done", [Idle EXCEPT !.input = v, !.outcome = Canonical[v].err])
       ELSE IF LRU_contains(cache, Canonical[v].text)
       THEN Goto(t, "read", [Idle EXCEPT !.input = v, !.path = "cache"])
       ELSE Goto(t, "execute", [Idle EXCEPT !.input = v, !.path = "store"])
    /\ UNCHANGED <<table, seq, cache, last, returned, life, canon, recency>>

\* return self._cache[canonical]: KeyError when the key is no longer there
ReadCache(t) ==
  /\ pc[t] = "read"
  /\ LET key == Canonical[frame[t].input].text
     IN IF LRU_contains(cache, key)
        THEN LET hit == LRU_getitem(cache, key)
             IN /\ cache' = hit.cache
                /\ Goto(t, "done", [frame[t] EXCEPT !.outcome = "ok", !.ids = <<hit.value>>])
        ELSE /\ cache' = cache
             /\ Goto(t, "done", [frame[t] EXCEPT !.outcome = "KeyError"])
  /\ UNCHANGED <<table, seq, last, returned, life, canon, recency>>

\* cur.execute starts the statement: it takes its snapshot of the committed rows
BeginStatement(t) ==
  /\ pc[t] = "execute"
  /\ Goto(t, "insert", [frame[t] EXCEPT !.snapshot = table])
  /\ UNCHANGED <<table, seq, cache, last, returned, life, canon, recency>>

\* psycopg raises an Error (no connection, a failed statement): the transaction
\* is rolled back and the call raises ConnectionError
StoreError(t) ==
  /\ pc[t] \in {"execute", "commit"}
  /\ Goto(t, "done", [frame[t] EXCEPT !.outcome = "ConnectionError", !.snapshot = {},
                                       !.inserted = {}, !.rows = <<>>])
  /\ UNCHANGED <<table, seq, cache, last, returned, life, canon, recency>>

\* another transaction holds an uncommitted row of the same value
Blocked(t, j) ==
  \E u \in Threads \ {t} : \E r \in frame[u].inserted : r.value = j

\* the statement runs: the INSERT waits for a transaction in progress that has
\* inserted the same value, checks the unique index against the rows committed
\* by now, and the SELECTs read the statement's snapshot
Insert(t) ==
  /\ pc[t] = "insert"
  /\ LET j == Jsonb[frame[t].input]
         q == register_query(frame[t].snapshot, table, seq, j)
     IN /\ ~Blocked(t, j)
        /\ q.seq <= MaxId
        /\ seq' = q.seq
        /\ Goto(t, "commit", [frame[t] EXCEPT !.snapshot = {}, !.inserted = q.inserted,
                                                !.rows = q.rows])
  /\ UNCHANGED <<table, cache, last, returned, life, canon, recency>>

\* fetchone() and the end of the with blocks: no row raises InvalidResponseError
\* and rolls back, otherwise the transaction commits
Commit(t) ==
  /\ pc[t] = "commit"
  /\ IF frame[t].rows = <<>>
     THEN /\ table' = table
          /\ Goto(t, "done", [frame[t] EXCEPT !.outcome = "InvalidResponseError",
                                               !.inserted = {}, !.rows = <<>>])
     ELSE /\ table' = table \cup frame[t].inserted
          /\ Goto(t, "update", [frame[t] EXCEPT !.inserted = {}])
  /\ UNCHANGED <<seq, cache, last, returned, life, canon, recency>>

\* self._cache[canonical] = obj_id; return obj_id
UpdateCache(t) ==
  /\ pc[t] = "update"
  /\ cache' = LRU_setitem(cache, Canonical[frame[t].input].text, frame[t].rows[1],
                          LruCacheSize)
  /\ Goto(t, "done", [frame[t] EXCEPT !.outcome = "ok", !.ids = frame[t].rows,
                                       !.rows = <<>>])
  /\ UNCHANGED <<table, seq, last, returned, life, canon, recency>>

ConcNext ==
  \E t \in Threads :
    \/ Call(t)
    \/ ReadCache(t)
    \/ BeginStatement(t)
    \/ StoreError(t)
    \/ Insert(t)
    \/ Commit(t)
    \/ UpdateCache(t)

ConcSpec == Init /\ [][ConcNext]_vars

\* ---------------------------------------- concurrent register_batch_objects
\* The same callers and connections, each call a batch.

\* the lists the concurrent callers register: overlapping values
ConcBatches == {<<"ab">>, <<"one", "ab">>, <<"ab", "one">>}

\* register_batch_objects(xs) up to the membership tests
BatchCall(t) ==
  \E xs \in ConcBatches :
    /\ pc[t] \in {"idle", "done"}
    /\ IF \A i \in 1..Len(xs) : LRU_contains(cache, Canonical[xs[i]].text)
       THEN Goto(t, "read", [Idle EXCEPT !.input = xs, !.path = "cache"])
       ELSE Goto(t, "execute", [Idle EXCEPT !.input = xs, !.path = "store"])
    /\ UNCHANGED <<table, seq, cache, last, returned, life, canon, recency>>

\* return [self._cache[canonical] for canonical in canonicals]: KeyError when a
\* key is no longer there
BatchReadCache(t) ==
  /\ pc[t] = "read"
  /\ LET keys == [i \in 1..Len(frame[t].input) |-> Canonical[frame[t].input[i]].text]
     IN IF \A i \in 1..Len(keys) : LRU_contains(cache, keys[i])
        THEN LET hits == read_all(cache, keys, <<>>)
             IN /\ cache' = hits.cache
                /\ Goto(t, "done", [frame[t] EXCEPT !.outcome = "ok", !.ids = hits.ids])
        ELSE /\ cache' = cache
             /\ Goto(t, "done", [frame[t] EXCEPT !.outcome = "KeyError"])
  /\ UNCHANGED <<table, seq, last, returned, life, canon, recency>>

\* the batch statement runs: its INSERT waits for a transaction in progress that
\* has inserted one of its values, checks the unique index against the rows
\* committed by now, and the SELECTs read the statement's snapshot
BatchInsert(t) ==
  /\ pc[t] = "insert"
  /\ LET js == [i \in 1..Len(frame[t].input) |-> Jsonb[frame[t].input[i]]]
         q == register_batch_query(frame[t].snapshot, table, seq, js)
     IN /\ \A i \in 1..Len(js) : ~Blocked(t, js[i])
        /\ q.seq <= MaxId
        /\ seq' = q.seq
        /\ Goto(t, "commit", [frame[t] EXCEPT !.snapshot = {}, !.inserted = q.inserted,
                                                !.rows = q.rows])
  /\ UNCHANGED <<table, cache, last, returned, life, canon, recency>>

\* fetchall(), the count of the rows and the end of the with blocks: a wrong
\* count raises InvalidResponseError and rolls back, otherwise the transaction
\* commits
BatchCommit(t) ==
  /\ pc[t] = "commit"
  /\ IF Len(frame[t].rows) # Len(frame[t].input)
     THEN /\ table' = table
          /\ Goto(t, "done", [frame[t] EXCEPT !.outcome = "InvalidResponseError",
                                               !.inserted = {}, !.rows = <<>>])
     ELSE /\ table' = table \cup frame[t].inserted
          /\ Goto(t, "update", [frame[t] EXCEPT !.inserted = {}])
  /\ UNCHANGED <<seq, cache, last, returned, life, canon, recency>>

\* for canonical, obj_id in zip(canonicals, ids): ...; return ids
BatchUpdateCache(t) ==
  /\ pc[t] = "update"
  /\ cache' = update_cache(cache,
                           [i \in 1..Len(frame[t].input) |->
                              Canonical[frame[t].input[i]].text],
                           frame[t].rows)
  /\ Goto(t, "done", [frame[t] EXCEPT !.outcome = "ok", !.ids = frame[t].rows,
                                       !.rows = <<>>])
  /\ UNCHANGED <<table, seq, last, returned, life, canon, recency>>

BatchConcNext ==
  \E t \in Threads :
    \/ BatchCall(t)
    \/ BatchReadCache(t)
    \/ BeginStatement(t)
    \/ StoreError(t)
    \/ BatchInsert(t)
    \/ BatchCommit(t)
    \/ BatchUpdateCache(t)

BatchConcSpec == Init /\ [][BatchConcNext]_vars

\* ------------------------------------------- construction, pool, close
\* The registrar from its construction to its destruction, on a store that is a
\* stub: the cursor hands back whatever rows it is told to, or raises.

\* the configurations a registrar is constructed with here: one that passes and
\* one that validate_config rejects
LifeConfigs == {DefaultConfig, [DefaultConfig EXCEPT !.pool_size = 0]}

\* the values and the lists the caller registers on the stubbed store
StubValues == {"ab", "one", "bad", "deep"}
StubBatches ==
  {<<>>, <<"ab">>, <<"ab", "one">>, <<"ab", "ab">>, <<"ab", "onef">>, <<"one", "bad">>,
   <<"ab", "deep">>}

\* the ids in the rows the stub hands back, and the lists of rows: every list
\* of up to MaxRows ids
StubIds == {1, 2}

RECURSIVE RowsOfLen(_)
RowsOfLen(n) ==
  IF n = 0 THEN {<<>>}
  ELSE {Append(rows, id) : rows \in RowsOfLen(n - 1), id \in StubIds}

StubRows == UNION {RowsOfLen(n) : n \in 0..MaxRows}

\* the stub's answer: rows, no row inserted anywhere
StubAnswer(rows, sq) == Answer([rows |-> rows, inserted |-> {}, seq |-> sq])

\* what the store does to a call, whatever the driver: fetchone() / fetchrow()
\* yield None or one row, fetchall() / fetch() a list of rows; or the database
\* reports an error; or the connection to it fails
StoreBehaviours(op) ==
  LET rows == IF op = "register_object"
              THEN RowsOfLen(0) \cup RowsOfLen(1)
              ELSE StubRows
  IN {[kind |-> "rows", rows |-> r] : r \in rows}
     \cup {[kind |-> k, rows |-> <<>>] : k \in {"database error", "connection failure"}}

\* what the driver makes of it inside the with block: psycopg raises a
\* psycopg.Error for both failures (OperationalError is one); asyncpg raises a
\* PostgresError for an error of the database and an OSError for a connection
\* that fails
driver_response(mode, behaviour, sq) ==
  IF behaviour.kind = "rows" THEN StubAnswer(behaviour.rows, sq)
  ELSE IF mode = "sync" THEN Failure("psycopg.Error")
  ELSE IF behaviour.kind = "database error" THEN Failure("PostgresError")
  ELSE Failure("OSError")

\* what the stub can do inside the with block of a call: what the driver makes
\* of the store's behaviour, and in a coroutine also the CancelledError of a
\* cancelled task
StubResponses(mode, op, sq) ==
  {driver_response(mode, b, sq) : b \in StoreBehaviours(op)}
  \cup (IF mode = "sync" THEN {} ELSE {Failure("CancelledError")})

\* json.dumps(obj, ensure_ascii=False): the text the store is sent for a value
json_str(v) == json_dumps(Objects[v], FALSE, ", ", ": ").text

\* a list of texts that leaves out the values it has already
json_strs_distinct(xs) ==
  LET firsts == SelectSeq([i \in 1..Len(xs) |-> i],
                          LAMBDA i : \A j \in 1..(i - 1) : xs[j] # xs[i])
  IN [n \in 1..Len(firsts) |-> json_str(xs[firsts[n]])]

\* json_strs = [json.dumps(obj, ensure_ascii=False) for obj in json_objects]
json_strs(xs) ==
  [i \in 1..Len(xs) |-> json_str(xs[i])]

\* the parameters of the one execute / fetchrow / fetch of a call: the text of
\* the value (twice for psycopg, once for asyncpg), or the list of the texts
execute_parameters(mode, op, xs) ==
  IF op = "register_object"
  THEN IF mode = "sync" THEN <<json_str(xs[1]), json_str(xs[1])>>
       ELSE <<json_str(xs[1])>>
  ELSE json_strs(xs)

\* the registrar's method op on input, by the class of the registrar
CallResult(mode, op, c, tbl, sq, input, resp) ==
  IF op = "register_object"
  THEN IF mode = "sync" THEN register_object_with(c, tbl, sq, input[1], resp)
       ELSE async_register_object_with(c, tbl, sq, input[1], resp)
  ELSE IF mode = "sync" THEN register_batch_objects_with(c, tbl, sq, input, resp)
       ELSE async_register_batch_objects_with(c, tbl, sq, input, resp)

\* with self._pool.connection() / async with self._pool.acquire(): a
\* connection leaves the pool on entry
connection_enter(p) == [p EXCEPT !.borrowed = @ + 1]

\* a with block that gives its connection back only when its body ends normally
connection_exit_on_success(p, outcome) ==
  IF outcome = "ok" THEN [p EXCEPT !.borrowed = @ - 1] ELSE p

\* ... and goes back when the block is left, with or without an exception
connection_exit(p, outcome) == [p EXCEPT !.borrowed = @ - 1]

\* ConnectionPool.close() / Pool.close(): closing a closed pool does nothing more
pool_close(p) == [p EXCEPT !.closed = TRUE, !.closes = @ + 1]

\* a close() that reaches for self._pool without looking
close_unguarded(r, p) ==
  IF r.has_pool THEN [pool |-> pool_close(p), raised |-> ""]
  ELSE [pool |-> p, raised |-> "AttributeError"]

\* JsonRegisterCache.close: if hasattr(self, "_pool"): self._pool.close();
\* JsonRegisterCacheAsync.close: the same with "and self._pool is not None"
close(r, p) ==
  IF r.mode = "sync"
  THEN IF r.has_pool THEN [pool |-> pool_close(p), raised |-> ""]
       ELSE [pool |-> p, raised |-> ""]
  ELSE IF r.has_pool /\ r.pool_result # "None"
       THEN [pool |-> pool_close(p), raised |-> ""]
       ELSE [pool |-> p, raised |-> ""]

\* an __exit__ that leaves the pool as it is
exit_without_close(r, p) == [pool |-> p, raised |-> ""]

\* __exit__ / __aexit__: self.close(), whatever exc_type is
exit(r, p) == close(r, p)

\* no registrar constructed, nothing registered
LifeInit ==
  /\ StoreInit
  /\ reg = NoRegistrar
  /\ pool = NewPool
  /\ scope = "out"
  /\ call = NoStoreCall
  /\ CanonIdle
  /\ recency = <<>>

\* JsonRegisterCache(cfg) or await JsonRegisterCacheAsync.create(cfg), with a
\* configuration out of cfgs
Construct(mode, cfgs) ==
  /\ reg.mode = "none"
  /\ \E cfg \in cfgs, pool_result \in PoolResults(mode) :
       LET made == IF mode = "sync" THEN JsonRegisterCache_init(cfg, pool_result)
                   ELSE JsonRegisterCacheAsync_create(cfg, pool_result)
       IN /\ made.pool_calls > 0 \/ pool_result = "pool"
          /\ reg' = Registrar(mode, cfg, pool_result, made)
          /\ pool' = NewPool
          /\ cache' = <<>>
          /\ UNCHANGED <<table, seq, last, returned, pc, frame, scope, call, canon, recency>>

\* the caller has a registrar it can use
Usable == reg.instance /\ ~reg.deleted /\ call.phase = "done"

\* the caller calls register_object(v) or register_batch_objects(xs) on a
\* registrar it has not closed
Invoke ==
  \E op \in {"register_object", "register_batch_objects"} :
    \E input \in IF op = "register_object" THEN {<<v>> : v \in StubValues}
                 ELSE StubBatches :
      /\ Usable
      /\ ~pool.closed
      /\ call' = [op |-> op, input |-> input, phase |-> "running", resp |-> NoResponse,
                  sent |-> <<>>]
      /\ UNCHANGED <<table, seq, cache, last, returned, pc, frame, reg, pool, scope, canon, recency>>

\* the call is over: the caller has its result, the registrar its cache
LifeFinish(r) ==
  /\ cache' = r.cache
  /\ table' = r.table
  /\ seq' = r.seq
  /\ last' = [op |-> call.op, input |-> call.input, outcome |-> r.outcome,
              ids |-> r.ids, path |-> r.path, fresh |-> FALSE]
  /\ call' = [call EXCEPT !.phase = "done", !.resp = NoResponse]

\* the call runs up to its with block: it returns or raises before it (fast
\* path, canonicalisation error, cache hit), or takes a connection, the cache
\* being what the membership tests have left of it
Run ==
  /\ call.phase = "running"
  /\ LET r == CallResult(reg.mode, call.op, cache, table, seq, call.input, NoResponse)
     IN IF r.path = "store"
        THEN /\ pool' = connection_enter(pool)
             /\ call' = [call EXCEPT !.phase = "in_store"]
             /\ cache' = r.cache
             /\ UNCHANGED <<table, seq, last, canon, recency>>
        ELSE /\ LifeFinish(r)
             /\ pool' = pool
  /\ UNCHANGED <<returned, pc, frame, reg, scope, canon, recency>>

\* execute and fetch inside the with block: the statement goes out with its
\* parameters, and the stub answers or raises
StoreResponds ==
  \E resp \in StubResponses(reg.mode, call.op, seq) :
    /\ call.phase = "in_store"
    /\ call' = [call EXCEPT !.phase = "fetched", !.resp = resp,
                             !.sent = Append(@, execute_parameters(reg.mode, call.op,
                                                                   call.input))]
    /\ UNCHANGED <<table, seq, cache, last, returned, pc, frame, reg, pool, scope, canon, recency>>

\* the rest of the call: the check of what was fetched, the end of the with
\* block, the except clause, the cache update, the return
Leave ==
  /\ call.phase = "fetched"
  /\ LET r == CallResult(reg.mode, call.op, cache, table, seq, call.input, call.resp)
     IN /\ LifeFinish(r)
        /\ pool' = connection_exit(pool, r.outcome)
  /\ UNCHANGED <<returned, pc, frame, reg, scope, canon, recency>>

\* the effect of a close(), an __exit__ or a __del__ on the registrar and its pool
Closed(done) ==
  /\ pool' = done.pool
  /\ reg' = [reg EXCEPT !.close_error = IF done.raised # "" THEN done.raised ELSE @]

\* registrar.close()
Close ==
  /\ Usable
  /\ pool.closes < MaxCloses
  /\ Closed(close(reg, pool))
  /\ UNCHANGED <<table, seq, cache, last, returned, pc, frame, scope, call, canon, recency>>

\* with registrar: / async with registrar: the block is entered
Enter ==
  /\ Usable
  /\ scope = "out"
  /\ scope' = "in"
  /\ UNCHANGED <<table, seq, cache, last, returned, pc, frame, reg, pool, call, canon, recency>>

\* the block is left, at its end or by an exception raised in it
Exit ==
  \E how \in {"left", "raised"} :
    /\ Usable
    /\ scope = "in"
    /\ scope' = how
    /\ Closed(exit(reg, pool))
    /\ UNCHANGED <<table, seq, cache, last, returned, pc, frame, call, canon, recency>>

\* JsonRegisterCache.__del__: the object goes away, also one whose __init__
\* raised; the coroutine class has no destructor
Del ==
  /\ reg.mode = "sync"
  /\ ~reg.deleted
  /\ scope # "in"
  /\ call.phase = "done"
  /\ pool' = close(reg, pool).pool
  /\ reg' = [reg EXCEPT !.deleted = TRUE,
                        !.close_error = IF close(reg, pool).raised # ""
                                        THEN close(reg, pool).raised ELSE @]
  /\ UNCHANGED <<table, seq, cache, last, returned, pc, frame, scope, call, canon, recency>>

LifeNext ==
  \/ Construct("sync", LifeConfigs)
  \/ Construct("async", LifeConfigs)
  \/ Invoke
  \/ Run
  \/ StoreResponds
  \/ Leave
  \/ Close
  \/ Enter
  \/ Exit
  \/ Del

LifeSpec == LifeInit /\ [][LifeNext]_vars

\* -------------------------------------------------- construction alone
\* one construction, over every configuration of Configs
ConfigNext ==
  \/ Construct("sync", Configs)
  \/ Construct("async", Configs)

ConfigSpec == LifeInit /\ [][ConfigNext]_vars

\* ------------------------------------------------------ canonicalise_json
\* A caller of canonicalise_json alone: it holds a Python value, makes a second
\* one of it by reordering dict items or list elements, and canonicalises both.

\* what the values are made of: integers and an object of no JSON type
Leaves == {PyInt(1), PyInt(2), PySet}
DictKeys == {"a", "b"}

\* the references a value inside up containers can hold to them
Refs(up) == {PyRef(k) : k \in 1..up}

\* the values of at most n levels of containers that sit inside up containers:
\* leaves, references, and lists and dicts of up to two items, the first of them
\* any such value and the second a leaf (the caller makes the other orders
\* itself)
RECURSIVE Nested(_, _)
Nested(n, up) ==
  Leaves \cup Refs(up) \cup
  (IF n = 0 THEN {}
   ELSE LET X == Nested(n - 1, up + 1)
            L == Leaves
        IN {PyList(<<>>), PyDict(<<>>)}
           \cup {PyList(<<x>>) : x \in X}
           \cup {PyList(<<x, l>>) : x \in X, l \in L}
           \cup {PyDict(<<PyItem(k, x)>>) : k \in DictKeys, x \in X}
           \cup UNION {{PyDict(<<PyItem(k, x), PyItem(j, l)>>) :
                          j \in DictKeys \ {k}, x \in X, l \in L} : k \in DictKeys})

\* the values canonicalised: the nested ones, and leaves inside more lists than
\* the encoder's recursion goes deep
CanonValues(n) ==
  Nested(n, 0) \cup {Wrap(x, RecursionLimit + 1) : x \in Leaves}

\* the values made of v by exchanging the two items of one dict in it
RECURSIVE KeySwaps(_)
KeySwaps(v) ==
  (IF v.t = "dict" /\ Len(v.items) = 2
   THEN {[v EXCEPT !.items = <<v.items[2], v.items[1]>>]} ELSE {})
  \cup UNION {{[v EXCEPT !.items[i] = w] : w \in KeySwaps(v.items[i])} :
                i \in 1..Len(v.items)}

\* the values made of v by exchanging the two elements of one list in it
RECURSIVE ElementSwaps(_)
ElementSwaps(v) ==
  (IF v.t = "list" /\ Len(v.items) = 2
   THEN {[v EXCEPT !.items = <<v.items[2], v.items[1]>>]} ELSE {})
  \cup UNION {{[v EXCEPT !.items[i] = w] : w \in ElementSwaps(v.items[i])} :
                i \in 1..Len(v.items)}

\* no registrar; the caller holds one of the values
CanonInit ==
  /\ StoreInit
  /\ reg = NoRegistrar
  /\ pool = NewPool
  /\ scope = "out"
  /\ call = NoStoreCall
  /\ recency = <<>>
  /\ obj \in CanonValues(MaxNesting)
  /\ other = obj
  /\ swapped = "none"
  /\ dumped = NotDumped

\* the caller builds the second value: the same dict filled in another order
SwapKeys ==
  /\ dumped = NotDumped
  /\ other' \in KeySwaps(other)
  /\ swapped' = IF swapped = "elements" THEN "elements" ELSE "keys"
  /\ UNCHANGED <<table, seq, cache, last, returned, pc, frame, life, obj, dumped, recency>>

\* ... or the same list with two elements exchanged
SwapElements ==
  /\ dumped = NotDumped
  /\ swapped # "elements"
  /\ other' \in ElementSwaps(other)
  /\ swapped' = "elements"
  /\ UNCHANGED <<table, seq, cache, last, returned, pc, frame, life, obj, dumped, recency>>

\* canonicalise_json(obj), then canonicalise_json(other): the caller keeps what
\* each call returned or raised
Canonicalise(which) ==
  /\ dumped[which] = NotCalled
  /\ which = "other" => dumped.obj # NotCalled
  /\ dumped' = [dumped EXCEPT ![which] =
                  canonicalise_json(IF which = "other" THEN other ELSE obj)]
  /\ UNCHANGED <<table, seq, cache, last, returned, pc, frame, life, obj, other, swapped,
                 recency>>

CanonNext ==
  \/ SwapKeys
  \/ SwapElements
  \/ \E which \in {"obj", "other"} : Canonicalise(which)

CanonSpec == CanonInit /\ [][CanonNext]_vars

\* ------------------------------------------------------- the cache in use
\* One registrar on the store, with the order in which its cache keys were last
\* used kept beside it: a key is used when a call reads its entry after a hit
\* and when a call puts it.

\* key k has just been used
touch(rec, k) == SelectSeq(rec, LAMBDA x : x # k) \o <<k>>

\* ... and so have the keys ks, one after the other
RECURSIVE touch_all(_, _)
touch_all(rec, ks) == IF ks = <<>> THEN rec ELSE touch_all(touch(rec, Head(ks)), Tail(ks))

\* the call op(xs) ends with r: a call that returns has read (cache path) or put
\* (store path) the key of every input, in input order; a call that raises has
\* not touched the cache
CacheFinish(op, xs, r) ==
  /\ cache' = r.cache
  /\ table' = r.table
  /\ seq' = r.seq
  /\ last' = [op |-> op, input |-> xs, outcome |-> r.outcome, ids |-> r.ids,
              path |-> r.path, fresh |-> FALSE]
  /\ recency' = IF r.outcome = "ok"
                THEN touch_all(recency, [i \in 1..Len(xs) |-> Canonical[xs[i]].text])
                ELSE recency
  /\ UNCHANGED <<returned, pc, frame, life, canon>>

\* register_object(v)
CacheRegisterObject ==
  \E v \in Values, db_ok \in BOOLEAN :
    LET r == register_object(cache, table, seq, v, db_ok)
    IN /\ db_ok \/ r.path = "store"
       /\ CacheFinish("register_object", <<v>>, r)

\* register_batch_objects(objects), on the list the caller built
CacheRegisterBatchObjects ==
  \E db_ok \in BOOLEAN :
    LET r == register_batch_objects(cache, table, seq, last.input, db_ok)
    IN /\ last.op \in {"list", "register_batch_objects"}
       /\ db_ok \/ r.path = "store"
       /\ CacheFinish("register_batch_objects", last.input, r)

CacheNext ==
  \/ CacheRegisterObject
  \/ NewList
  \/ AppendObject
  \/ CacheRegisterBatchObjects

CacheSpec == Init /\ [][CacheNext]_vars

\* -------------------------------------------------------------- the claims
Key(v) == Canonical[v].text
RowId(tbl, j) == IF \E r \in tbl : r.value = j
                 THEN (CHOOSE r \in tbl : r.value = j).id ELSE NULL
Succeeded(op) == last.op = op /\ last.outcome = "ok"

\* C1: whatever calls are made, and whether the cache or the store serves it, every
\* successful registration of a value returns one and the same id.
C1_SameIdEveryTime == \A v \in Values : Cardinality(returned[v]) <= 1

\* C1 witness: a value whose row is older than the newest row is registered with
\* the cache full of other keys, so that the store serves it again.
C1_Witness ==
  /\ Succeeded("register_object") /\ last.path = "store" /\ ~last.fresh
  /\ last.ids[1] < seq
  /\ Len(cache) = LruCacheSize

\* C2: values with different canonical keys never get the same id.
C2_DistinctKeysDistinctIds ==
  \A v, w \in Values : Key(v) # Key(w) => returned[v] \cap returned[w] = {}

\* C3: a successful batch returns one id per input, equal ids for equal canonical
\* keys, different ids for different canonical keys, each the id of its value's row.
C3_BatchOrderAndDedup ==
  (Succeeded("register_batch_objects") /\ last.input # <<>>) =>
    /\ Len(last.ids) = Len(last.input)
    /\ \A i, j \in 1..Len(last.input) :
         (Key(last.input[i]) = Key(last.input[j])) <=> (last.ids[i] = last.ids[j])
    /\ \A i \in 1..Len(last.input) : last.ids[i] = RowId(table, Jsonb[last.input[i]])

\* the list a caller has built and is about to register, all of it serialisable
ListReady ==
  /\ last.op = "list" /\ last.input # <<>>
  /\ \A i \in 1..Len(last.input) : Canonical[last.input[i]].err = ""
JsonbList == [i \in 1..Len(last.input) |-> Jsonb[last.input[i]]]

\* C4: for every list and every table the registrar can have built, the batch query
\* returns one row per input element, in input order, each the id of its value's row.
C4_OneRowPerInput ==
  ListReady =>
    LET q == register_batch_query(table, table, seq, JsonbList)
    IN /\ Len(q.rows) = Len(last.input)
       /\ \A i \in 1..Len(last.input) :
            q.rows[i] = RowId(table \cup q.inserted, JsonbList[i])

\* C5: once a batch has returned id x for a value, register_object of that value
\* on the same registrar returns x.
C5_BatchThenSingle ==
  (Succeeded("register_batch_objects") /\ ~last.fresh) =>
    \A i \in 1..Len(last.input) :
      LET r == register_object(cache, table, seq, last.input[i], TRUE)
      IN r.outcome = "ok" /\ r.ids = <<last.ids[i]>>

\* C5 witness: a batch has succeeded through the store and the cache has already
\* lost one of its values, so that both the cache and the store get to answer
C5_Witness ==
  /\ Succeeded("register_batch_objects") /\ ~last.fresh /\ last.path = "store"
  /\ \E i, j \in 1..Len(last.input) :
       /\ LRU_contains(cache, Key(last.input[i]))
       /\ ~LRU_contains(cache, Key(last.input[j]))

\* registered before / not in the store yet
Registered(v) == returned[v] # {}
NewToStore(v) == RowId(table, Jsonb[v]) = NULL

\* C6: a batch mixing values registered before with values new to the store
\* succeeds; the former keep their ids, the latter get ids that differ from one
\* another and from every id given out before.
C6_MixedBatch ==
  (/\ ListReady
   /\ \E i \in 1..Len(last.input) : Registered(last.input[i])
   /\ \E i \in 1..Len(last.input) : NewToStore(last.input[i])) =>
    LET xs == last.input
        r == register_batch_objects(cache, table, seq, xs, TRUE)
    IN /\ r.outcome = "ok"
       /\ \A i \in 1..Len(xs) : Registered(xs[i]) => r.ids[i] \in returned[xs[i]]
       /\ \A i \in 1..Len(xs) :
            NewToStore(xs[i]) =>
              /\ r.ids[i] \notin {row.id : row \in table}
              /\ \A j \in 1..Len(xs) :
                   (NewToStore(xs[j]) /\ Key(xs[j]) # Key(xs[i])) => r.ids[j] # r.ids[i]

\* C7: registering again the list a batch has just registered returns the same id
\* list, with the cache warm and with a new registrar on the same store.
C7_SameBatchAgain ==
  Succeeded("register_batch_objects") =>
    LET r == register_batch_objects(cache, table, seq, last.input, TRUE)
    IN r.outcome = "ok" /\ r.ids = last.ids

Finished(t) == pc[t] = "done" /\ frame[t].outcome # "ConnectionError"

\* C8: two callers that register the same value, each on its own connection, both
\* succeed with the same id, and the store holds one row of the value.
C8_RaceConverges ==
  \A t, u \in Threads :
    (t # u /\ Finished(t) /\ Finished(u) /\ frame[t].input = frame[u].input
       /\ frame[t].path = "store" /\ frame[u].path = "store") =>
      /\ frame[t].outcome = "ok" /\ frame[u].outcome = "ok"
      /\ frame[t].ids = frame[u].ids
      /\ Cardinality({r \in table : r.value = Jsonb[frame[t].input]}) = 1

\* C9: a call that found its key in the cache returns the cached id, whatever the
\* other callers do to the cache in between.
C9_HitReturnsCachedId ==
  \A t \in Threads :
    (pc[t] = "done" /\ frame[t].path = "cache") => frame[t].outcome = "ok"

\* ------------------------------------------ claims on a store that misbehaves
\* the list lengths differ: the stub handed back fewer or more rows than inputs
WrongCount ==
  /\ call.phase = "fetched" /\ call.op = "register_batch_objects"
  /\ call.resp.raised = "" /\ Len(call.resp.rows) # Len(call.input)

\* C11: when the rows fetched for a batch are fewer or more than its inputs, the
\* call raises InvalidResponseError, returns no id, and the cache stays as it was.
C11_WrongCountRaises ==
  [][WrongCount =>
       (last'.outcome = "InvalidResponseError" /\ last'.ids = <<>> /\ cache' = cache)]_vars

\* C11 witness: a batch of two has failed on its row count with a key of it cached
C11_Witness ==
  /\ last.op = "register_batch_objects" /\ last.outcome = "InvalidResponseError"
  /\ Len(last.input) = 2 /\ call.phase = "done"
  /\ \E i \in 1..2 : LRU_contains(cache, Key(last.input[i]))

\* fetchone() / fetchrow() gave None
NoRow ==
  /\ call.phase = "fetched" /\ call.op = "register_object"
  /\ call.resp.raised = "" /\ call.resp.rows = <<>>

\* C12: when the query of register_object yields no row, the call raises
\* InvalidResponseError, not ConnectionError, and the cache stays as it was.
C12_NoRowRaises ==
  [][NoRow =>
       (last'.outcome = "InvalidResponseError" /\ last'.ids = <<>> /\ cache' = cache)]_vars

\* C12 witness: a register_object has failed on an empty result with the cache
\* holding another key
C12_Witness ==
  /\ last.op = "register_object" /\ last.outcome = "InvalidResponseError"
  /\ call.phase = "done" /\ cache # <<>>

\* ------------------------------------------------- claims on construction
\* a name as the claim has it: not empty, letters, digits and underscores only
WellFormed(name) == name # <<>> /\ \A i \in 1..Len(name) : name[i] \in {"a", "1", "_"}

\* the arguments other than the names are acceptable
RestValid(cfg) ==
  /\ cfg.database_name # "" /\ cfg.database_host # "" /\ cfg.database_user # ""
  /\ cfg.database_port \in 1..65535
  /\ cfg.lru_cache_size >= 1 /\ cfg.pool_size >= 1

NamesWellFormed(cfg) ==
  WellFormed(cfg.table_name) /\ WellFormed(cfg.id_column) /\ WellFormed(cfg.jsonb_column)

\* C13: a construction, by either constructor, with an empty database name, host
\* or user, a port outside 1..65535, a malformed table or column name, a cache
\* size or a pool size below 1 raises ConfigurationError, and the pool factory
\* has not been called.
C13_InvalidConfigRejected ==
  (reg.mode # "none" /\ ~(RestValid(reg.cfg) /\ NamesWellFormed(reg.cfg))) =>
    (reg.outcome = "ConfigurationError" /\ ~reg.instance /\ reg.pool_calls = 0)

\* C13 witness: a construction rejected for its last argument alone
C13_Witness ==
  /\ reg.outcome = "ConfigurationError"
  /\ reg.cfg.pool_size < 1
  /\ validate_config([reg.cfg EXCEPT !.pool_size = 1]) = ""

\* C14: the names pass validation exactly when each is non-empty and made of
\* letters, digits and underscores only.
C14_NamePassesIffWellFormed ==
  (reg.mode # "none" /\ RestValid(reg.cfg)) =>
    (reg.outcome # "ConfigurationError" <=> NamesWellFormed(reg.cfg))

\* C15: when the pool factory fails (raises, or yields None to create), the
\* construction raises ConnectionError and the caller gets no registrar.
C15_PoolFailureRaises ==
  (reg.mode # "none" /\ reg.pool_calls > 0 /\ reg.pool_result # "pool") =>
    (reg.outcome = "ConnectionError" /\ ~reg.instance)

\* C15 witness: create_pool has yielded None
C15_Witness ==
  /\ reg.mode = "async" /\ reg.pool_result = "None" /\ reg.pool_calls = 1
  /\ reg.outcome = "ConnectionError"

\* ------------------------------------------------ claims on close and pool
\* C16: no close() raises, however many are made and also on an object whose
\* constructor raised before it had a pool; once close() has reached the pool,
\* the pool is closed.
C16_CloseNeverRaises ==
  /\ reg.close_error = ""
  /\ pool.closes > 0 => pool.closed

\* C16 witness: close() has been called more often than MaxCloses times, the
\* last time by the destructor
C16_Witness == pool.closes > MaxCloses /\ pool.closed /\ reg.deleted

\* the with block on the registrar is being left
ScopeExits == scope = "in" /\ scope' # "in"

\* C17 as stated: right after the with block is left, at its end or by an
\* exception, the pool is closed and its close() has been called exactly once.
C17_ExitClosedOnce == [][ScopeExits => (pool'.closed /\ pool'.closes = 1)]_vars

\* C17 amended: leaving the with block, at its end or by an exception, closes the
\* pool with exactly one call of its close(), on top of the calls made before.
C17_ExitClosesOnce ==
  [][ScopeExits => (pool'.closed /\ pool'.closes = pool.closes + 1)]_vars

\* C17 witness: the block has been left by an exception after a call in it failed
C17_Witness ==
  /\ scope = "raised" /\ pool.closes = 1 /\ pool.closed
  /\ last.outcome = "ConnectionError"

\* C18: a call holds one connection exactly while it is inside its with block,
\* and none remains out once it has returned or raised.
C18_ConnectionReturned ==
  pool.borrowed = IF call.phase \in {"in_store", "fetched"} THEN 1 ELSE 0

\* C18 witness: a call that went to the store was cancelled there and is over
C18_Witness ==
  /\ call.phase = "done" /\ last.path = "store" /\ last.outcome = "CancelledError"

\* ------------------------------------------------ claims on the fast paths
\* C19: register_batch_objects([]) returns [] at once: no cache lookup, no
\* connection, no query, cache and store as they were.
C19_EmptyBatchFastPath ==
  [][(call.phase = "running" /\ call.op = "register_batch_objects" /\ call.input = <<>>) =>
       /\ call'.phase = "done"
       /\ last'.outcome = "ok" /\ last'.ids = <<>> /\ last'.path = "none"
       /\ cache' = cache /\ pool' = pool /\ table' = table /\ seq' = seq]_vars

\* C19 witness: an empty batch has returned on a registrar with entries cached
C19_Witness ==
  /\ last.op = "register_batch_objects" /\ last.input = <<>> /\ last.outcome = "ok"
  /\ call.phase = "done" /\ cache # <<>>

\* C20: register_object of a value whose canonical key is cached returns the
\* cached id without taking a connection or querying; the store is unchanged.
C20_CacheHitNoStore ==
  [][(/\ call.phase = "running" /\ call.op = "register_object"
      /\ LRU_contains(cache, Key(call.input[1]))) =>
       /\ call'.phase = "done"
       /\ last'.outcome = "ok" /\ last'.path = "cache"
       /\ last'.ids = <<LRU_getitem(cache, Key(call.input[1])).value>>
       /\ pool' = pool /\ table' = table /\ seq' = seq]_vars

\* C20 witness: a register_object has been served from a cache of two entries
C20_Witness ==
  /\ last.op = "register_object" /\ last.path = "cache" /\ last.outcome = "ok"
  /\ call.phase = "done" /\ Len(cache) = 2

\* the id the cache holds for key k
CachedId(c, k) == c[CHOOSE i \in 1..Len(c) : c[i].key = k].value

\* a batch that is not empty and canonicalises, about to look at the cache
BatchRuns ==
  /\ call.phase = "running" /\ call.op = "register_batch_objects"
  /\ call.input # <<>>
  /\ \A i \in 1..Len(call.input) : Canonical[call.input[i]].err = ""
AllCached == \A i \in 1..Len(call.input) : LRU_contains(cache, Key(call.input[i]))

\* C21: a batch whose keys are all cached returns the cached ids, one per input
\* and in input order, and takes no connection; a batch with a key missing goes
\* to the store whole, and what it returns is what the store returned.
C21_AllCachedOrAllStore ==
  [][/\ (BatchRuns /\ AllCached) =>
          /\ call'.phase = "done" /\ last'.outcome = "ok" /\ last'.path = "cache"
          /\ Len(last'.ids) = Len(call.input)
          /\ \A i \in 1..Len(call.input) :
               last'.ids[i] = CachedId(cache, Key(call.input[i]))
          /\ pool' = pool /\ table' = table /\ seq' = seq
     /\ (BatchRuns /\ ~AllCached) =>
          /\ call'.phase = "in_store" /\ call'.input = call.input
          /\ pool'.borrowed = pool.borrowed + 1
     /\ (call.phase = "fetched" /\ call.op = "register_batch_objects"
           /\ last'.outcome = "ok") =>
          /\ last'.path = "store" /\ last'.ids = call.resp.rows]_vars

\* C21 witness: a batch of two has been answered from the cache, with two ids
\* in the order of its inputs
C21_Witness ==
  /\ last.op = "register_batch_objects" /\ last.outcome = "ok" /\ last.path = "cache"
  /\ call.phase = "done" /\ last.input = <<"ab", "one">>
  /\ last.ids = <<2, 1>> /\ pool.borrowed = 0

\* ------------------------------------------------ claims on canonicalise_json
\* v with the items of every dict in it in key order
RECURSIVE SortedDeep(_)
SortedDeep(v) ==
  IF v.t \in {"list", "dict", "item"}
  THEN LET kids == [i \in 1..Len(v.items) |-> SortedDeep(v.items[i])]
       IN [v EXCEPT !.items = IF v.t = "dict" THEN SortItems(kids) ELSE kids]
  ELSE v

\* v holds, at some depth, a value of Python type ty
RECURSIVE HasType(_, _)
HasType(v, ty) == v.t = ty \/ \E i \in 1..Len(v.items) : HasType(v.items[i], ty)

\* C23: values that differ only in the order of dict items, at any depth, have
\* the same canonical key, and the key is the text of the value with every
\* dict in key order, items separated by "," and ":" alone; {"b":2,"a":1} gives
\* {"a":1,"b":2}.
C23_KeyOrderIndependent ==
  /\ (swapped \in {"none", "keys"} /\ dumped.other # NotCalled) => dumped.other = dumped.obj
  /\ dumped.obj.err = "" =>
       dumped.obj.text = json_dumps(SortedDeep(obj), FALSE, ",", ":").text
  /\ dumped.other.err = "" =>
       dumped.other.text = json_dumps(SortedDeep(other), FALSE, ",", ":").text
  /\ (dumped.obj # NotCalled
        /\ obj = PyDict(<<PyItem("b", PyInt(2)), PyItem("a", PyInt(1))>>)) =>
       dumped.obj.text = "{\"a\":1,\"b\":2}"

\* C23 witness: two dicts of one key that hold the same dict of two keys in
\* different orders have been canonicalised, with success
C23_Witness ==
  /\ swapped = "keys" /\ dumped.other # NotCalled /\ dumped.obj.err = ""
  /\ obj.t = "dict" /\ Len(obj.items) = 1
  /\ other.items[1] # obj.items[1]

\* the canonical keys of the elements of a list, joined by commas
RECURSIVE JoinKeys(_)
JoinKeys(items) ==
  IF items = <<>> THEN ""
  ELSE IF Len(items) = 1 THEN canonicalise_json(items[1]).text
  ELSE canonicalise_json(items[1]).text \o "," \o JoinKeys(Tail(items))

\* C25: lists that hold different elements in exchanged positions have different
\* canonical keys, and the key of a list is the keys of its elements in the
\* order of the list, dicts among them with their keys sorted.
C25_ArrayOrderPreserved ==
  /\ (/\ swapped = "elements" /\ dumped.obj.err = "" /\ dumped.other.err = ""
      /\ SortedDeep(other) # SortedDeep(obj)) =>
       dumped.other.text # dumped.obj.text
  /\ (dumped.obj.err = "" /\ obj.t = "list") =>
       dumped.obj.text = "[" \o JoinKeys(obj.items) \o "]"
  /\ (dumped.other.err = "" /\ other.t = "list") =>
       dumped.other.text = "[" \o JoinKeys(other.items) \o "]"

\* C25 witness: a list of a dict with its keys out of order and an integer, and
\* the list with the two exchanged, have been canonicalised
C25_Witness ==
  /\ swapped = "elements" /\ dumped.obj.err = "" /\ dumped.other.err = ""
  /\ obj.t = "list" /\ Len(obj.items) = 2
  /\ obj.items[1].t = "dict" /\ Len(obj.items[1].items) = 2
  /\ KeyRank(obj.items[1].items[1].s) > KeyRank(obj.items[1].items[2].s)
  /\ other.items[2] = obj.items[1]

\* a value that holds a reference to a container around it, or an object of no
\* JSON type
Invalid(v) == HasType(v, "ref") \/ HasType(v, "set")

\* C26: canonicalise_json of a value with a reference cycle or with an object of
\* no JSON type in it raises CanonicalisationError and nothing else.
C26_InvalidRaisesCanonicalisationError ==
  (dumped.obj # NotCalled /\ Invalid(obj)) => dumped.obj.err = "CanonicalisationError"

\* ------------------------------------------------ claims on key order and ids
\* the value in use that differs from v in the order of dict items only, v itself
\* if there is none
Reordered(v) ==
  LET same == {w \in Values \ {v} : SortedDeep(JsonObjects[w]) = SortedDeep(JsonObjects[v])}
  IN IF same = {} THEN v ELSE CHOOSE w \in same : TRUE

\* the list a batch has registered, with the keys of its dicts in another order
ReorderedInput == [i \in 1..Len(last.input) |-> Reordered(last.input[i])]

\* C24: after a batch has registered a list, a batch of the same objects with
\* their keys in another order returns the same id list.
C24_KeyOrderSameIds ==
  (Succeeded("register_batch_objects") /\ ReorderedInput # last.input) =>
    LET r == register_batch_objects(cache, table, seq, ReorderedInput, TRUE)
    IN r.outcome = "ok" /\ r.ids = last.ids

\* ------------------------------------------------ claims on the two classes
\* the calls a caller makes on the stubbed store
StubCalls ==
  {[op |-> "register_object", input |-> <<v>>] : v \in StubValues}
  \cup {[op |-> "register_batch_objects", input |-> xs] : xs \in StubBatches}

\* C27: on the same cache and for the same behaviour of the store, a call on the
\* synchronous registrar and the same call on the asynchronous one end alike: the
\* same ids in the same order or the same error, and the same cache after.
C27_SameInBothModes ==
  reg.instance =>
    \A c \in StubCalls : \A b \in StoreBehaviours(c.op) :
      LET s == CallResult("sync", c.op, cache, table, seq, c.input,
                          driver_response("sync", b, seq))
          a == CallResult("async", c.op, cache, table, seq, c.input,
                          driver_response("async", b, seq))
      IN s.outcome = a.outcome /\ s.ids = a.ids /\ s.cache = a.cache

KeySet(c) == {c[i].key : i \in 1..Len(c)}
StorePut ==
  /\ last'.op \in {"register_object", "register_batch_objects"}
  /\ last'.outcome = "ok"
  /\ last'.path = "store"
PutKeys == [i \in 1..Len(last'.input) |-> Key(last'.input[i])]

\* C28: after any calls, every cache entry names a row of the store, by its id,
\* whose value is the value of an object with the entry's key; and the store holds
\* at most one row of a value.
C28_CacheAgreesWithStore ==
  /\ \A i \in 1..Len(cache) :
       \E r \in table :
         /\ r.id = cache[i].value
         /\ \E v \in Values : Key(v) = cache[i].key /\ Jsonb[v] = r.value
  /\ \A r1, r2 \in table : r1.value = r2.value => r1 = r2

C28_Witness ==
  /\ last.op = "register_batch_objects" /\ last.outcome = "ok" /\ last.path = "store"
  /\ Len(cache) >= 2
  /\ cache[1].value # cache[2].value

\* C29: the cache never holds more than lru_cache_size entries: not after a call,
\* and not after any of the puts of a batch, however many distinct keys it has.
C29_CacheWithinCapacity ==
  [][/\ Len(cache') <= LruCacheSize
     /\ StorePut =>
          \A n \in 0..Len(PutKeys) :
            Len(update_cache(cache, SubSeq(PutKeys, 1, n), SubSeq(last'.ids, 1, n)))
              <= LruCacheSize]_vars

C29_Witness ==
  /\ last.op = "register_batch_objects" /\ last.outcome = "ok" /\ last.path = "store"
  /\ Cardinality({Key(last.input[i]) : i \in 1..Len(last.input)}) > LruCacheSize
  /\ Len(cache) = LruCacheSize

\* the key of c used longest ago, by the order of use rec
LeastRecent(c, rec) ==
  LET pos(k) == CHOOSE i \in 1..Len(rec) : rec[i] = k
  IN CHOOSE k \in KeySet(c) : \A j \in KeySet(c) : pos(k) <= pos(j)

\* each put of the keys ks into c: a present key drops nothing, a new key into a
\* full cache drops the least recently used key and no other
RECURSIVE PutsEvictLeastRecent(_, _, _, _)
PutsEvictLeastRecent(c, rec, ks, ids) ==
  IF ks = <<>> \/ ids = <<>> THEN TRUE
  ELSE LET k == Head(ks)
           after == update_cache(c, <<k>>, <<Head(ids)>>)
       IN /\ IF k \in KeySet(c) THEN KeySet(after) = KeySet(c)
             ELSE IF Len(c) = LruCacheSize
             THEN KeySet(after) = (KeySet(c) \ {LeastRecent(c, rec)}) \cup {k}
             ELSE KeySet(after) = KeySet(c) \cup {k}
          /\ PutsEvictLeastRecent(after, touch(rec, k), Tail(ks), Tail(ids))

\* the keys used last, as many as the cache holds
MostRecent(rec, n) == {rec[i] : i \in (Len(rec) - n + 1)..Len(rec)}

\* C30: a put of a new key into a full cache drops exactly the least recently used
\* key, where reading an entry after a hit and putting a key are uses; a put of a
\* present key drops nothing. So the cache holds the keys used last.
C30_EvictsLeastRecentlyUsed ==
  [][/\ StorePut => PutsEvictLeastRecent(cache, recency, PutKeys, last'.ids)
     /\ KeySet(cache') = MostRecent(recency', Len(cache'))]_vars

C30_Witness ==
  /\ last.op = "register_object" /\ last.input = <<"onef">> /\ last.path = "store"
  /\ recency = <<Key("one"), Key("ab"), Key("onef")>>
  /\ KeySet(cache) = {Key("ab"), Key("onef")}
  /\ \E r \in table : r.id = 1 /\ r.value = Jsonb["ab"]

\* the keys ks, each once, in the order of their last occurrence
LastPuts(ks) == touch_all(<<>>, ks)
BatchPut == StorePut /\ last'.op = "register_batch_objects"

\* C31: after a batch that went to the store and succeeded, every position's key
\* has been put with its id, in input order (the keys lead the cache, the last put
\* first, also a key cached before and a value stored before); a batch key still
\* cached maps to the id returned for it; with no more distinct keys than the
\* capacity, all of them are cached.
C31_BatchPutsEveryPosition ==
  [][BatchPut =>
       LET order == LastPuts(PutKeys)
           n == Len(order)
       IN /\ \A j \in 1..n : j <= LruCacheSize => cache'[j].key = order[n + 1 - j]
          /\ \A i \in 1..Len(PutKeys) :
               PutKeys[i] \in KeySet(cache') =>
                 CachedId(cache', PutKeys[i]) = last'.ids[i]
          /\ n <= LruCacheSize => \A i \in 1..n : order[i] \in KeySet(cache')]_vars

C31_Witness ==
  /\ last.op = "register_batch_objects" /\ last.path = "store"
  /\ last.input = <<"onef", "ab">> /\ last.ids = <<2, 1>>
  /\ recency = <<Key("one"), Key("onef"), Key("ab")>>
  /\ cache = <<[key |-> Key("ab"), value |-> 1], [key |-> Key("onef"), value |-> 2]>>

\* the batch in hand has been to the store
BatchQueried ==
  /\ call.op = "register_batch_objects"
  /\ \/ call.phase = "fetched" /\ ~AllCached
     \/ call.phase = "done" /\ last.path = "store"

WellFormedResult ==
  /\ call.resp.raised = ""
  /\ IF call.op = "register_object" THEN call.resp.rows # <<>>
     ELSE Len(call.resp.rows) = Len(call.input)

\* C33: a call that goes to the store leaves the cache alone until the store has
\* answered, and writes it only when the answer is well formed; cancelled or
\* failed in its with block, it ends with the cache as it found it.
C33_CacheWrittenAfterStore ==
  [][/\ (call.phase = "running" /\ call'.phase = "in_store") => cache' = cache
     /\ call.phase = "in_store" => cache' = cache
     /\ (call.phase = "fetched" /\ ~WellFormedResult) =>
          (cache' = cache /\ last'.outcome # "ok")]_vars

C33_Witness ==
  /\ call.phase = "done" /\ call.op = "register_batch_objects"
  /\ last.path = "store" /\ last.outcome = "CancelledError"
  /\ last.input = <<"ab", "one">>
  /\ Len(cache) = 1 /\ LRU_contains(cache, Key("ab"))

\* the call that starts has been given a value that does not canonicalise
InvalidInput ==
  /\ call.phase = "running"
  /\ \E i \in 1..Len(call.input) : Canonical[call.input[i]].err # ""

\* C34: a call given a value that does not canonicalise, alone or among the
\* elements of a batch, raises CanonicalisationError at once: no id comes back,
\* the cache is untouched (entries and their order), no connection is taken, no
\* statement is sent, and the store is as it was.
C34_CanonicalisationErrorFirst ==
  [][InvalidInput =>
       /\ call'.phase = "done"
       /\ last'.outcome = "CanonicalisationError" /\ last'.ids = <<>>
       /\ cache' = cache
       /\ pool' = pool /\ call'.sent = <<>>
       /\ table' = table /\ seq' = seq]_vars

\* id is the id of a row the store holds for the value v
AssignedTo(id, v) == id # NULL /\ id > 0 /\ \E r \in table : r.id = id /\ r.value = Jsonb[v]

\* C35: every id a batch returns, and every id in the cache, is a positive
\* integer, never None, and the id of the store's row of that value, also when
\* other connections insert the same values while the batch statement runs.
C35_IdsAssignedByStore ==
  /\ \A t \in Threads :
       (pc[t] = "done" /\ frame[t].outcome = "ok") =>
         \A i \in 1..Len(frame[t].ids) : AssignedTo(frame[t].ids[i], frame[t].input[i])
  /\ \A i \in 1..Len(cache) :
       \E v \in Values : Key(v) = cache[i].key /\ AssignedTo(cache[i].value, v)

\* C36: the tests "canonical in self._cache" of a batch leave the cache alone:
\* when a key is missing, the cache the call has when it takes its connection,
\* and when the store answers, is the cache from before the call, entry by entry
\* and in the same order of use.
C36_MembershipTestKeepsCache ==
  [][/\ (BatchRuns /\ ~AllCached) => (call'.phase = "in_store" /\ cache' = cache)
     /\ (call.op = "register_batch_objects" /\ call.phase = "in_store") =>
          (call'.phase = "fetched" /\ cache' = cache)]_vars

C36_Witness ==
  /\ call.op = "register_batch_objects" /\ call.phase = "in_store"
  /\ call.input = <<"ab", "onef">>
  /\ Len(cache) = 2 /\ cache[2].key = Key("ab") /\ cache[1].key = Key("one")

\* C37: on the arguments a registrar of either class was constructed with,
\* validate_config and JsonRegisterCacheAsync._validate_config decide alike:
\* both accept, or both raise ConfigurationError with the same message, which
\* names the first parameter that fails; and the constructor has raised
\* ConfigurationError exactly when they reject.
C37_ValidatorsAgree ==
  reg.mode # "none" =>
    /\ validate_config(reg.cfg) = async_validate_config(reg.cfg)
    /\ (reg.outcome = "ConfigurationError") = (validate_config(reg.cfg) # "")
    /\ (reg.outcome = "ConfigurationError") = (async_validate_config(reg.cfg) # "")

C37_Witness ==
  /\ reg.mode = "async" /\ reg.outcome = "ConfigurationError"
  /\ reg.cfg.lru_cache_size = 0 /\ reg.cfg.pool_size = 0
  /\ validate_config(reg.cfg) = "lru_cache_size must be at least 1"

====
